---- MODULE Spec2Model ----
(***************************************************************************)
(* Model of core::DataRegistry (src/src/core/DataRegistry.cpp): the        *)
(* per-source store of metadata, latest frame and observers, used by       *)
(* several threads.  Each member function is a short sequence of steps:    *)
(* taking mutex_, then the statements of its body; the last one releases   *)
(* the lock (end of the scope) and returns.  The callbacks of update run   *)
(* outside the lock and may themselves call any member function, so every  *)
(* thread carries a stack of activations.                                  *)
(***************************************************************************)
EXTENDS Integers, Sequences, FiniteSets, TLC

\* ---------------------------------------------------------------- bounds
MaxDepth == 2   \* nesting of calls on one thread (callback -> call)
MaxCalls == 2   \* member-function calls in one behaviour, after Init
MaxClientEvents == 4 \* calls of the public functions of the relay client, connections
                     \* the relay accepts and messages the relay sends, taken together
MaxPoints == 2  \* points in the frame of one workbench.dataFrame notification

Threads   == {"t1", "t2"}
SourceIds == {"a", "b"}
Names     == {"n1", "n2"}
NoThread  == "none"

\* DataPoint { channelId, payload }; the payload is an abstract sample.
DataPoint(ch, v) == [channelId |-> ch, payload |-> v]
\* The values of DataFrame::points used by the callers of update.
PointLists == { <<>>, <<DataPoint("ch1", 1)>> }
\* Tokens a caller may pass to removeObserver: issued ones and ones not
\* issued (yet).
TokenArgs == {1, 2, 3}

VARIABLES
    metadata_,        \* unordered_map<string, SourceMetadata>
    latestFrames_,    \* unordered_map<string, DataFrame>
    observers_,       \* unordered_map<string, vector<ObserverEntry>>
    nextObserverId_,  \* std::atomic<int>
    mutex_,           \* std::shared_mutex: its exclusive owner and its shared owners
    stack,            \* per thread: the activations of registry calls, innermost last
    stores,           \* history: one record per frame stored by update, in store order
    received,         \* history: per issued token, the store numbers its callback was invoked with
    issued,           \* history: the tokens returned by addObserver, in order, with their source,
                      \*          the number of stores so far and whether the source was unknown
    removed,          \* history: per token erased from observers_, by what and after how many stores
    erasedAt,         \* history: per source, the number of stores before its latest frame was last erased
    wasRegistered,    \* history: the records registerSource was ever called with
    noopRemoves,      \* history: the kinds of removeObserver calls that found no entry to erase
    calls             \* history: the number of member-function calls made so far

vars == <<metadata_, latestFrames_, observers_, nextObserverId_, mutex_,
          stack, stores, received, issued, removed, erasedAt, wasRegistered,
          noopRemoves, calls>>

registry == <<metadata_, latestFrames_, observers_, nextObserverId_>>

\* ------------------------------------------------------- map operations
\* m[k] = v of an unordered_map
Put(m, k, v) == [x \in (DOMAIN m) \cup {k} |-> IF x = k THEN v ELSE m[x]]
\* m.erase(k)
Erase(m, k) == [x \in (DOMAIN m) \ {k} |-> m[x]]
EmptyMap == [x \in {} |-> 0]

Range(s) == {s[i] : i \in 1..Len(s)}

\* a removal with the test inverted: the entries whose id equals token stay
SelectSeqByInverted(s, token) ==
    IF Range(s) = {} THEN <<>>
    ELSE [k \in 1..Cardinality({x \in 1..Len(s) : s[x].id = token}) |->
             s[CHOOSE x \in 1..Len(s) : s[x].id = token]]

RECURSIVE SelectSeqBy(_, _)
\* std::remove_if + erase: the entries whose id differs from token, in order
SelectSeqBy(s, token) ==
    IF s = <<>> THEN <<>>
    ELSE IF Head(s).id = token THEN SelectSeqBy(Tail(s), token)
         ELSE <<Head(s)>> \o SelectSeqBy(Tail(s), token)

\* ------------------------------------------------------------ data types
SourceMetadata(id, name) == [id |-> id, name |-> name]
DataFrame(sourceId, points) == [sourceId |-> sourceId, points |-> points]
\* A std::function<void(const DataFrame&)>; callable is FALSE for an empty
\* one.  tag is a history label (the token of the entry it was added as),
\* so that an invocation can be attributed to an observer.
Observer(callable, tag) == [callable |-> callable, tag |-> tag]
ObserverEntry(id, callback) == [id |-> id, callback |-> callback]

\* ------------------------------------------------------------ activations
Activation(op, pc, sourceId) ==
    [op |-> op, pc |-> pc, sourceId |-> sourceId,
     name |-> "", points |-> <<>>, callable |-> FALSE, token |-> 0,
     callbacks |-> <<>>, i |-> 0, seq |-> 0,
     retBool |-> FALSE, retOpt |-> <<>>, retList |-> {}]

Top(t) == stack[t][Len(stack[t])]
SetTop(t, a) == [stack EXCEPT ![t][Len(stack[t])] = a]
Push(t, a) == [stack EXCEPT ![t] = Append(@, a)]
\* thread t enters a member function with activation a
Enter(t, a) == stack' = Push(t, a) /\ calls' = calls + 1
Pop(t) == [stack EXCEPT ![t] = SubSeq(@, 1, Len(@) - 1)]
At(t, op, pc) == stack[t] # <<>> /\ Top(t).op = op /\ Top(t).pc = pc

AllActivations == UNION {Range(stack[t]) : t \in Threads}
\* a thread may enter a member function when it is outside the registry or
\* inside an observer callback
CanCall(t) ==
    /\ Len(stack[t]) < MaxDepth
    /\ calls < MaxCalls
    /\ IF stack[t] = <<>> THEN TRUE ELSE Top(t).pc = "in_cb"

\* ------------------------------------------------------------ the mutex
NoLock == [writer |-> NoThread, readers |-> {}]
\* a writer that waits for other writers only
CanLockAmongReaders == mutex_.writer = NoThread

\* std::unique_lock lock(mutex_)
CanLock == mutex_.writer = NoThread /\ mutex_.readers = {}
Locked(t) == [mutex_ EXCEPT !.writer = t]
\* std::shared_lock lock(mutex_)
CanLockShared == mutex_.writer = NoThread
LockedShared(t) == [mutex_ EXCEPT !.readers = @ \cup {t}]
UnlockedShared(t) == [mutex_ EXCEPT !.readers = @ \ {t}]

history == <<stores, received, issued, removed, erasedAt, wasRegistered, noopRemoves>>

\* the registry as constructed
InitEmpty ==
    /\ metadata_ = EmptyMap
    /\ latestFrames_ = EmptyMap
    /\ observers_ = EmptyMap
    /\ nextObserverId_ = 1
    /\ stores = <<>>
    /\ received = EmptyMap
    /\ issued = <<>>
    /\ wasRegistered = {}
    /\ stack = [t \in Threads |-> <<>>]

\* the registry after one thread has set up a first source:
\* registerSource({"a", "n1"}); update({"a", points}); addObserver("a", cb)
InitOneSource ==
    /\ metadata_ = Put(EmptyMap, "a", SourceMetadata("a", "n1"))
    /\ latestFrames_ = Put(EmptyMap, "a", DataFrame("a", <<DataPoint("ch1", 1)>>))
    /\ observers_ = Put(EmptyMap, "a", <<ObserverEntry(1, Observer(TRUE, 1))>>)
    /\ nextObserverId_ = 2
    /\ stores = <<[frame |-> DataFrame("a", <<DataPoint("ch1", 1)>>), expected |-> {},
                   registered |-> TRUE, open |-> {}, done |-> TRUE]>>
    /\ received = Put(EmptyMap, 1, <<>>)
    /\ issued = <<[token |-> 1, sourceId |-> "a", callable |-> TRUE, at |-> 1,
                   fresh |-> FALSE]>>
    /\ wasRegistered = {SourceMetadata("a", "n1")}
    /\ stack = [t \in Threads |-> <<>>]

\* the same registry a little later: thread t1 has called update({"a", {}})
\* and is inside the callback of the observer
InitInCallback ==
    /\ metadata_ = Put(EmptyMap, "a", SourceMetadata("a", "n1"))
    /\ latestFrames_ = Put(EmptyMap, "a", DataFrame("a", <<>>))
    /\ observers_ = Put(EmptyMap, "a", <<ObserverEntry(1, Observer(TRUE, 1))>>)
    /\ nextObserverId_ = 2
    /\ stores = <<[frame |-> DataFrame("a", <<DataPoint("ch1", 1)>>), expected |-> {},
                   registered |-> TRUE, open |-> {}, done |-> TRUE],
                  [frame |-> DataFrame("a", <<>>), expected |-> {1},
                   registered |-> TRUE, open |-> {}, done |-> FALSE]>>
    /\ received = Put(EmptyMap, 1, <<[seq |-> 2, frame |-> DataFrame("a", <<>>)]>>)
    /\ issued = <<[token |-> 1, sourceId |-> "a", callable |-> TRUE, at |-> 1,
                   fresh |-> FALSE]>>
    /\ wasRegistered = {SourceMetadata("a", "n1")}
    /\ stack = [t \in Threads |->
                   IF t = "t1"
                   THEN <<[Activation("update", "in_cb", "a") EXCEPT
                              !.callbacks = <<Observer(TRUE, 1)>>, !.i = 1, !.seq = 2]>>
                   ELSE <<>>]

\* nobody is inside the registry and nothing was erased so far
InitUnlocked ==
    /\ mutex_ = NoLock
    /\ removed = EmptyMap
    /\ erasedAt = [id \in SourceIds |-> 0]
    /\ noopRemoves = {}
    /\ calls = 0

\* ================================================== HardwareServiceClient
VARIABLES
    running_,             \* std::atomic<bool>
    socketFd_,            \* std::atomic<int>: -1 or the descriptor of the connection
    subscribedSources_,   \* std::vector<std::string>
    subscriptionsMutex_,  \* std::mutex: its owner
    worker_,              \* std::thread: where the thread function run() stands; "none" when not joinable
    wfd,                  \* worker: the local fd of connectSocket and of readLoop
    wi,                   \* worker: the position of the loop of resendSubscriptions
    wmsg,                 \* worker: the message handed to handleIncomingMessage
    liveWorkers,          \* the number of threads running run()
    aborted,              \* std::terminate was called
    lifecycle,            \* the thread that calls start() and stop(): where it stands
    caller,               \* per thread that calls subscribeSource etc.: where it stands
    open,                 \* environment: the descriptors that are open in this process
    peerOpen,             \* environment: the connections the relay has not closed
    conns,                \* environment: the number of connections established so far
    events,               \* history: messages written, messages handled, replays begun, in order
    regCalls,             \* history: the calls made on the registry, in order
    lifecycleLog,         \* history: the start() and stop() calls made, in order
    stoppedAt,            \* history: where the worker stood when the last effective stop() began
    requests,             \* history: the number of public functions of the client called so far
    inbound,              \* history: the number of messages received
    callsMade,            \* history: the control calls made so far, each with what it found
    lastEffect,           \* history: per sourceId, the last call that went through its block under subscriptionsMutex_
    lastDone,             \* history: per sourceId, the last call that returned
    overtaken,            \* history: the sourceIds for which a call went through its block under
                          \*          subscriptionsMutex_ while another call for it had not yet returned
    sigpipe,              \* a ::send on a connection closed by the relay raised SIGPIPE, which
                          \* ends the process (no handler is installed)
    restart               \* history: whether a stop() has taken effect and the sourceIds tracked
                          \*          when the last one began; for the last start() that followed
                          \*          one, the number its first connection gets (0 when there is
                          \*          none) and the sourceIds that were tracked at that stop()

cvars == <<running_, socketFd_, subscribedSources_, subscriptionsMutex_, worker_, wfd, wi,
           wmsg, liveWorkers, aborted, lifecycle, caller, open, peerOpen, conns, events,
           regCalls, lifecycleLog, stoppedAt, requests, inbound, callsMade, lastEffect,
           lastDone, overtaken, sigpipe, restart>>

Callers == {"u1", "u2"}
\* the sourceId arguments of subscribeSource and unsubscribeSource
ClientIds == SourceIds \cup {""}
\* the (sourceId, channelId, metric) arguments of requestMetricReset
ResetArgs == {<<"a", "ch1", "max">>, <<"", "ch1", "max">>, <<"a", "", "max">>,
              <<"a", "ch1", "">>}
NoMessage == [kind |-> "none", id |-> ""]
\* history: what the callers and the relay have done so far
Spent == requests + conns + inbound

\* history: no stop() has taken effect yet
NoRestart == [stopped |-> FALSE, tracked |-> {}, first |-> 0, intent |-> {}]

\* the client as constructed: not running, no socket, nothing subscribed
ClientInit ==
    /\ running_ = FALSE
    /\ socketFd_ = -1
    /\ subscribedSources_ = <<>>
    /\ subscriptionsMutex_ = NoThread
    /\ worker_ = "none"
    /\ wfd = -1 /\ wi = 0 /\ wmsg = NoMessage
    /\ liveWorkers = 0
    /\ aborted = FALSE
    /\ lifecycle = "idle"
    /\ caller = [c \in Callers |-> [pc |-> "idle", method |-> "", sourceId |-> ""]]
    /\ open = {} /\ peerOpen = {} /\ conns = 0
    /\ events = <<>> /\ regCalls = <<>> /\ lifecycleLog = <<>>
    /\ stoppedAt = "none"
    /\ requests = 0 /\ inbound = 0
    /\ callsMade = {}
    /\ lastEffect = [id \in SourceIds |-> "none"]
    /\ lastDone = [id \in SourceIds |-> "none"]
    /\ overtaken = {}
    /\ sigpipe = FALSE
    /\ restart = NoRestart

\* ------------------------------------------- publishFrameFromJson: state
VARIABLES
    note,                 \* the params of the workbench.dataFrame notification being processed
    ppc,                  \* where publishFrameFromJson stands
    pseq                  \* history: the store number of the frame it has published, 0 before

pvars == <<note, ppc, pseq>>

\* a member that a JSON object does not have
NoMember == "<absent>"

\* params.source: present says whether params has the member, typed whether
\* its members have the types the code reads them as
JsonSource(present, typed, id, name) ==
    [present |-> present, typed |-> typed, id |-> id, name |-> name]
\* a member of frame.points: has is the set of its payload keys, typed says
\* whether the members the code reads have the types it reads them as
JsonPoint(channelId, has, typed) == [channelId |-> channelId, has |-> has, typed |-> typed]
\* params.frame
JsonFrame(present, sourceId, points) ==
    [present |-> present, sourceId |-> sourceId, points |-> points]

NoNotification ==
    [source |-> JsonSource(FALSE, TRUE, NoMember, NoMember),
     frame |-> JsonFrame(FALSE, NoMember, <<>>)]

\* --------------------------------------- workbench.metadata: state
VARIABLES
    params,               \* the params of the workbench.metadata notification being processed:
                          \* its shape and its entries in order
    entryAt,              \* the position in the entries of the loop of handleRelayNotification
    mpc,                  \* where the handling of the notification stands
    handed                \* history: the entries of this notification for which
                          \*          registerSource has returned, with the metadata handed over

mvars == <<params, entryAt, mpc, handed>>

\* no workbench.metadata notification is being processed
MetadataIdle ==
    /\ params = [shape |-> "object", entries |-> <<>>]
    /\ entryAt = 0 /\ mpc = "idle" /\ handed = <<>>

\* ------------------------------------------------------ readLoop: state
VARIABLES
    streams,              \* per connection, the bytes the relay sends on it
    rconn,                \* the number of the connection the worker is at
    rpos,                 \* per connection, the number of bytes ::recv has returned
    readBuffer_,          \* std::string
    rpc,                  \* where connectSocket and readLoop stand
    handedLines           \* history: the messages handed to handleIncomingMessage, each
                          \*          with the number of its connection

rvars == <<streams, rconn, rpos, readBuffer_, rpc, handedLines>>

\* nothing is read
ReadIdle ==
    /\ streams = <<>> /\ rconn = 0 /\ rpos = <<>>
    /\ readBuffer_ = <<>> /\ rpc = "idle" /\ handedLines = <<>>

\* ------------------------------------------------------ sendJson: state
VARIABLES
    wire,                 \* the bytes written on the connection, each with the number of the
                          \* message it belongs to and its position in that message
    sendMutex_,           \* std::mutex: its owner
    sending,              \* per thread: where it stands in sendJson, the number of its message
                          \* and the local variable total
    sendsMade             \* history: the number of sendJson calls made

svars == <<wire, sendMutex_, sending, sendsMade>>

\* nothing is sent
SendIdle == wire = <<>> /\ sendMutex_ = NoThread /\ sending = <<>> /\ sendsMade = 0

\* ------------------------------------------------- PluginManager: state
VARIABLES
    modules_,             \* std::vector<ModulePtr>: per module its id() and what its
                          \* declareSources() returns
    moduleSources_,       \* std::unordered_map<std::string, std::vector<std::string>>
    initialized_,         \* bool
    pmpc,                 \* where initializeModules or shutdownModules stands
    modAt,                \* the position of its loop over modules_
    srcAt,                \* the position of its loop over the sources of a module
    pmlog                 \* history: the calls of initializeModules and shutdownModules and
                          \*          the calls they have made, in order

gvars == <<modules_, moduleSources_, initialized_, pmpc, modAt, srcAt, pmlog>>

\* there is no plugin manager
PluginIdle ==
    /\ modules_ = <<>> /\ moduleSources_ = <<>> /\ initialized_ = FALSE
    /\ pmpc = "none" /\ modAt = 0 /\ srcAt = 0 /\ pmlog = <<>>

\* ------------------------------------------------------ the locks: state
VARIABLES
    holder,               \* per lock (DataRegistry::mutex_, subscriptionsMutex_, sendMutex_):
                          \* the thread that holds it
    lstack,               \* per thread: the functions it is in, each with its position
    lorder,               \* history: the pairs <<held, taken>> of a lock taken while
                          \*          another one was held
    lcalls                \* history: the number of calls made

lvars == <<holder, lstack, lorder, lcalls>>

\* no thread is looked at
LocksIdle == holder = <<>> /\ lstack = <<>> /\ lorder = {} /\ lcalls = 0

\* the state of the parts that are looked at on their own
ovars == <<rvars, svars, gvars, lvars>>
OthersIdle == ReadIdle /\ SendIdle /\ PluginIdle /\ LocksIdle

allvars == <<vars, cvars, pvars, mvars, ovars>>

\* no notification is being processed
PublishIdle == note = NoNotification /\ ppc = "idle" /\ pseq = 0

Init ==
    /\ InitEmpty \/ InitOneSource \/ InitInCallback
    /\ InitUnlocked
    /\ ClientInit
    /\ PublishIdle
    /\ MetadataIdle
    /\ OthersIdle

\* ------------------------------------------------------- registerSource
RegisterSourceLock(t, id, name) ==
    /\ CanCall(t) /\ CanLock
    /\ mutex_' = Locked(t)
    /\ Enter(t, [Activation("registerSource", "body", id) EXCEPT !.name = name])
    /\ UNCHANGED <<registry, history>>

\* a registration that keeps the record a source already has
StoreMetadataIfAbsent(meta) ==
    IF meta.id \in DOMAIN metadata_ THEN metadata_ ELSE Put(metadata_, meta.id, meta)

\* metadata_[metadata.id] = std::move(metadata)
StoreMetadata(meta) == Put(metadata_, meta.id, meta)

RegisterSource(t) ==
    /\ At(t, "registerSource", "body")
    /\ metadata_' = StoreMetadata(SourceMetadata(Top(t).sourceId, Top(t).name))
    /\ mutex_' = NoLock
    /\ stack' = Pop(t)
    /\ wasRegistered' = wasRegistered \cup {SourceMetadata(Top(t).sourceId, Top(t).name)}
    /\ UNCHANGED <<latestFrames_, observers_, nextObserverId_, stores, received, issued,
                   removed, erasedAt, noopRemoves, calls>>

\* ----------------------------------------------------- unregisterSource
UnregisterSourceLock(t, id) ==
    /\ CanCall(t) /\ CanLock
    /\ mutex_' = Locked(t)
    /\ Enter(t, Activation("unregisterSource", "erase_metadata", id))
    /\ UNCHANGED <<registry, history>>

\* an unregisterSource that lets go of the lock after its first erase
UnregisterEraseMetadataUnlock(t) ==
    /\ At(t, "unregisterSource", "erase_metadata")
    /\ metadata_' = Erase(metadata_, Top(t).sourceId)
    /\ mutex_' = NoLock
    /\ stack' = SetTop(t, [Top(t) EXCEPT !.pc = "erase_latest"])
    /\ UNCHANGED <<latestFrames_, observers_, nextObserverId_, history, calls>>

\* metadata_.erase(sourceId)
UnregisterEraseMetadata(t) ==
    /\ At(t, "unregisterSource", "erase_metadata")
    /\ metadata_' = Erase(metadata_, Top(t).sourceId)
    /\ stack' = SetTop(t, [Top(t) EXCEPT !.pc = "erase_latest"])
    /\ UNCHANGED <<latestFrames_, observers_, nextObserverId_, mutex_, history, calls>>

\* latestFrames_.erase(sourceId)
UnregisterEraseLatest(t) ==
    /\ At(t, "unregisterSource", "erase_latest")
    /\ latestFrames_' = Erase(latestFrames_, Top(t).sourceId)
    /\ stack' = SetTop(t, [Top(t) EXCEPT !.pc = "erase_observers"])
    /\ erasedAt' = [erasedAt EXCEPT ![Top(t).sourceId] = Len(stores)]
    /\ UNCHANGED <<metadata_, observers_, nextObserverId_, mutex_, stores, received, issued,
                   removed, wasRegistered, noopRemoves, calls>>

\* the ids of the entries of observers_[id] (none when the key is absent)
TokensOf(obs, id) == IF id \in DOMAIN obs THEN {e.id : e \in Range(obs[id])} ELSE {}

\* history: the tokens in gone are erased by operation by, after Len(stores)
\* stores, Len(issued) issued tokens and got invocations of their callback
NoteRemoved(gone, by) ==
    [k \in (DOMAIN removed) \cup gone |->
        IF k \in gone
        THEN [by |-> by, at |-> Len(stores), issuedThen |-> Len(issued),
              got |-> IF k \in DOMAIN received THEN Len(received[k]) ELSE 0]
        ELSE removed[k]]

\* an unregisterSource that leaves the observer list in place
UnregisterEraseObserversKeep(t) ==
    /\ At(t, "unregisterSource", "erase_observers")
    /\ mutex_' = NoLock
    /\ stack' = Pop(t)
    /\ removed' = NoteRemoved(TokensOf(observers_, Top(t).sourceId), "unregisterSource")
    /\ UNCHANGED <<registry, stores, received, issued, erasedAt, wasRegistered,
                   noopRemoves, calls>>

\* observers_.erase(sourceId); the lock is released and the call returns
UnregisterEraseObservers(t) ==
    /\ At(t, "unregisterSource", "erase_observers")
    /\ observers_' = Erase(observers_, Top(t).sourceId)
    /\ mutex_' = NoLock
    /\ stack' = Pop(t)
    /\ removed' = NoteRemoved(TokensOf(observers_, Top(t).sourceId), "unregisterSource")
    /\ UNCHANGED <<metadata_, latestFrames_, nextObserverId_, stores, received, issued,
                   erasedAt, wasRegistered, noopRemoves, calls>>

\* -------------------------------------------------------------- readers
\* what the four const member functions compute under the shared lock
isRegistered(id) == id \in DOMAIN metadata_
metadata(id) == IF id \in DOMAIN metadata_ THEN <<metadata_[id]>> ELSE <<>>
listSources == {metadata_[id] : id \in DOMAIN metadata_}
latest(id) == IF id \in DOMAIN latestFrames_ THEN <<latestFrames_[id]>> ELSE <<>>

ReaderOps == {"isRegistered", "metadata", "listSources", "latest"}

\* a reader takes the shared lock and evaluates its body; no writer can
\* run until it returns, so its result is the one of this moment
ReadLock(t, op, id) ==
    /\ CanCall(t) /\ CanLockShared
    /\ mutex_' = LockedShared(t)
    /\ Enter(t, [Activation(op, "read", id) EXCEPT
            !.retBool = IF op = "isRegistered" THEN isRegistered(id) ELSE FALSE,
            !.retOpt = IF op = "metadata" THEN metadata(id)
                       ELSE IF op = "latest" THEN latest(id)
                       ELSE <<>>,
            !.retList = IF op = "listSources" THEN listSources ELSE {}])
    /\ UNCHANGED <<registry, history>>

\* the reader returns its result and the shared lock is released
ReadReturn(t) ==
    /\ stack[t] # <<>> /\ Top(t).op \in ReaderOps /\ Top(t).pc = "read"
    /\ mutex_' = UnlockedShared(t)
    /\ stack' = Pop(t)
    /\ UNCHANGED <<registry, history, calls>>

\* --------------------------------------------------------------- update
UpdateLock(t, id, points) ==
    /\ CanCall(t) /\ CanLock
    /\ mutex_' = Locked(t)
    /\ Enter(t, [Activation("update", "store", id) EXCEPT !.points = points])
    /\ UNCHANGED <<registry, history>>

\* a copy loop that stops one entry short
SnapshotCallbacksShort(id) ==
    IF id \in DOMAIN observers_
    THEN [k \in 1..(Len(observers_[id]) - 1) |-> observers_[id][k].callback]
    ELSE <<>>

\* a copy loop that is skipped for a source without metadata
SnapshotCallbacksIfRegistered(id) ==
    IF id \in DOMAIN observers_ /\ id \in DOMAIN metadata_
    THEN [k \in 1..Len(observers_[id]) |-> observers_[id][k].callback]
    ELSE <<>>

\* the loop that fills the local vector callbacks from observers_[sourceId]
SnapshotCallbacks(id) ==
    IF id \in DOMAIN observers_
    THEN [k \in 1..Len(observers_[id]) |-> observers_[id][k].callback]
    ELSE <<>>

\* a store that appends the new points to those of the frame already held
StoreFrameMerged(frame) ==
    Put(latestFrames_, frame.sourceId,
        IF frame.sourceId \in DOMAIN latestFrames_
        THEN [frame EXCEPT !.points = latestFrames_[frame.sourceId].points \o @]
        ELSE frame)

\* latestFrames_[frame.sourceId] = frame
StoreFrame(frame) == Put(latestFrames_, frame.sourceId, frame)

\* history: the tokens registered for id whose callback is not empty
RegisteredTags(id) ==
    IF id \in DOMAIN observers_
    THEN {e.id : e \in {x \in Range(observers_[id]) : x.callback.callable}}
    ELSE {}

\* history: the store numbers of the update calls that have stored their
\* frame and not returned yet
InFlight ==
    {a.seq : a \in {x \in AllActivations : x.op = "update" /\ x.pc \in {"loop", "in_cb"}}}

\* an update whose lock lives until the function returns
StoreScopeEndHeld == mutex_

\* the closing brace of the block that holds the unique_lock of update
StoreScopeEnd == NoLock

\* the block under the unique_lock: store the frame, copy the callbacks
UpdateStore(t) ==
    /\ At(t, "update", "store")
    /\ latestFrames_' = StoreFrame(DataFrame(Top(t).sourceId, Top(t).points))
    /\ mutex_' = StoreScopeEnd
    /\ stack' = SetTop(t, [Top(t) EXCEPT !.pc = "loop", !.i = 1,
                                         !.callbacks = SnapshotCallbacks(Top(t).sourceId),
                                         !.seq = Len(stores) + 1])
    /\ stores' = Append(stores, [frame |-> DataFrame(Top(t).sourceId, Top(t).points),
                                 expected |-> RegisteredTags(Top(t).sourceId),
                                 registered |-> isRegistered(Top(t).sourceId),
                                 open |-> InFlight,
                                 done |-> FALSE])
    /\ UNCHANGED <<metadata_, observers_, nextObserverId_, received, issued, removed,
                   erasedAt, wasRegistered, noopRemoves, calls>>

\* a loop that hands out whatever the registry holds at the time of the call
DeliveredFrameFromMap(a) ==
    IF a.sourceId \in DOMAIN latestFrames_ THEN latestFrames_[a.sourceId]
    ELSE DataFrame(a.sourceId, <<>>)

\* the frame handed to the callbacks: the caller's frame
DeliveredFrame(a) == DataFrame(a.sourceId, a.points)

\* a loop that walks observers_ itself instead of the copy taken under the lock
CallbackAtLive(a) ==
    IF a.sourceId \in DOMAIN observers_ /\ a.i <= Len(observers_[a.sourceId])
    THEN observers_[a.sourceId][a.i].callback
    ELSE Observer(FALSE, 0)

\* cb of the current iteration of the loop over callbacks
CallbackAt(a) == a.callbacks[a.i]

\* history: callback cb was invoked with frame f of store number seq
NoteReceived(cb, seq, f) ==
    IF cb.tag \in DOMAIN received
    THEN [received EXCEPT ![cb.tag] = Append(@, [seq |-> seq, frame |-> f])]
    ELSE received

\* one iteration of the loop over callbacks: if (cb) cb(frame)
UpdateInvoke(t) ==
    /\ At(t, "update", "loop")
    /\ Top(t).i <= Len(Top(t).callbacks)
    /\ IF CallbackAt(Top(t)).callable
       THEN /\ stack' = SetTop(t, [Top(t) EXCEPT !.pc = "in_cb"])
            /\ received' = NoteReceived(CallbackAt(Top(t)), Top(t).seq, DeliveredFrame(Top(t)))
       ELSE /\ stack' = SetTop(t, [Top(t) EXCEPT !.i = @ + 1])
            /\ UNCHANGED received
    /\ UNCHANGED <<registry, mutex_, stores, issued, removed, erasedAt, wasRegistered,
                   noopRemoves, calls>>

\* the callback returns and the loop goes on
CallbackReturn(t) ==
    /\ At(t, "update", "in_cb")
    /\ stack' = SetTop(t, [Top(t) EXCEPT !.pc = "loop", !.i = @ + 1])
    /\ UNCHANGED <<registry, mutex_, history, calls>>

\* the loop is over: update returns
UpdateReturn(t) ==
    /\ At(t, "update", "loop")
    /\ Top(t).i > Len(Top(t).callbacks)
    /\ stack' = Pop(t)
    /\ stores' = [stores EXCEPT ![Top(t).seq].done = TRUE]
    /\ UNCHANGED <<registry, mutex_, received, issued, removed, erasedAt, wasRegistered,
                   noopRemoves, calls>>

\* ---------------------------------------------------------- addObserver
AddObserverLock(t, id, callable) ==
    /\ CanCall(t) /\ CanLock
    /\ mutex_' = Locked(t)
    /\ Enter(t, [Activation("addObserver", "body", id) EXCEPT !.callable = callable])
    /\ UNCHANGED <<registry, history>>

\* a counter that is read but not advanced
IntSuccStuck(x) == x

\* the value of an int after ++ (std::atomic<int> wraps)
IntSucc(x) == IF x = 2147483647 THEN (-2147483647) - 1 ELSE x + 1

\* const int token = nextObserverId_++
NextToken == nextObserverId_

\* an addObserver that turns down a source without metadata
PushBackIfRegistered(id, entry) ==
    IF id \in DOMAIN metadata_
    THEN Put(observers_, id, IF id \in DOMAIN observers_ THEN Append(observers_[id], entry)
                             ELSE <<entry>>)
    ELSE observers_

\* observers_[sourceId].push_back(entry)
PushBack(id, entry) ==
    Put(observers_, id, IF id \in DOMAIN observers_ THEN Append(observers_[id], entry)
                        ELSE <<entry>>)

AddObserver(t) ==
    /\ At(t, "addObserver", "body")
    /\ nextObserverId_' = IntSucc(nextObserverId_)
    /\ observers_' = PushBack(Top(t).sourceId,
                              ObserverEntry(NextToken, Observer(Top(t).callable, NextToken)))
    /\ mutex_' = NoLock
    /\ stack' = Pop(t)
    /\ issued' = Append(issued, [token |-> NextToken, sourceId |-> Top(t).sourceId,
                                 callable |-> Top(t).callable, at |-> Len(stores),
                                 fresh |-> /\ ~isRegistered(Top(t).sourceId)
                                           /\ latest(Top(t).sourceId) = <<>>])
    /\ received' = Put(received, NextToken, <<>>)
    /\ UNCHANGED <<metadata_, latestFrames_, stores, removed, erasedAt, wasRegistered,
                   noopRemoves, calls>>

\* ------------------------------------------------------- removeObserver
RemoveObserverLock(t, id, token) ==
    /\ CanCall(t) /\ CanLock
    /\ mutex_' = Locked(t)
    /\ Enter(t, [Activation("removeObserver", "body", id) EXCEPT !.token = token])
    /\ UNCHANGED <<registry, history>>

\* a removeObserver that erases the last entry when no id matches
RemoveEntriesOrLast(id, token) ==
    IF id \in DOMAIN observers_
    THEN LET kept == IF token \in TokensOf(observers_, id)
                     THEN SelectSeqBy(observers_[id], token)
                     ELSE SubSeq(observers_[id], 1, Len(observers_[id]) - 1)
         IN IF kept = <<>> THEN Erase(observers_, id) ELSE Put(observers_, id, kept)
    ELSE observers_

\* the body of removeObserver: observers_ afterwards
RemoveEntries(id, token) ==
    IF id \in DOMAIN observers_
    THEN IF SelectSeqBy(observers_[id], token) = <<>>
         THEN Erase(observers_, id)
         ELSE Put(observers_, id, SelectSeqBy(observers_[id], token))
    ELSE observers_

\* history: why a removeObserver call finds nothing to erase
NoopKind(id, token) ==
    IF token \in DOMAIN removed THEN "removed"
    ELSE IF token \in {issued[k].token : k \in 1..Len(issued)} THEN "other source"
    ELSE IF id \in DOMAIN observers_ THEN "unissued"
    ELSE "unissued, no observers"

RemoveObserver(t) ==
    /\ At(t, "removeObserver", "body")
    /\ observers_' = RemoveEntries(Top(t).sourceId, Top(t).token)
    /\ mutex_' = NoLock
    /\ stack' = Pop(t)
    /\ IF Top(t).token \in TokensOf(observers_, Top(t).sourceId)
       THEN /\ removed' = NoteRemoved({Top(t).token}, "removeObserver")
            /\ UNCHANGED noopRemoves
       ELSE /\ noopRemoves' = noopRemoves \cup {NoopKind(Top(t).sourceId, Top(t).token)}
            /\ UNCHANGED removed
    /\ UNCHANGED <<metadata_, latestFrames_, nextObserverId_, stores, received, issued,
                   erasedAt, wasRegistered, calls>>

Next ==
    \E t \in Threads :
        \/ \E id \in SourceIds, name \in Names : RegisterSourceLock(t, id, name)
        \/ RegisterSource(t)
        \/ \E id \in SourceIds : UnregisterSourceLock(t, id)
        \/ UnregisterEraseMetadata(t)
        \/ UnregisterEraseLatest(t)
        \/ UnregisterEraseObservers(t)
        \/ \E op \in ReaderOps \ {"listSources"}, id \in SourceIds : ReadLock(t, op, id)
        \/ ReadLock(t, "listSources", "")
        \/ ReadReturn(t)
        \/ \E id \in SourceIds, points \in PointLists : UpdateLock(t, id, points)
        \/ UpdateStore(t)
        \/ UpdateInvoke(t)
        \/ CallbackReturn(t)
        \/ UpdateReturn(t)
        \/ \E id \in SourceIds, callable \in BOOLEAN : AddObserverLock(t, id, callable)
        \/ AddObserver(t)
        \/ \E id \in SourceIds, token \in TokenArgs : RemoveObserverLock(t, id, token)
        \/ RemoveObserver(t)

\* the registry used by its threads; the relay client is not started
Spec == Init /\ [][Next /\ UNCHANGED <<cvars, pvars, mvars, ovars>>]_allvars

\* the steps by which thread t goes on with the call it is in; none of them
\* waits for anything, so a thread that is scheduled takes them
Continue(t) ==
    \/ RegisterSource(t)
    \/ UnregisterEraseMetadata(t)
    \/ UnregisterEraseLatest(t)
    \/ UnregisterEraseObservers(t)
    \/ ReadReturn(t)
    \/ UpdateStore(t)
    \/ UpdateInvoke(t)
    \/ CallbackReturn(t)
    \/ UpdateReturn(t)
    \/ AddObserver(t)
    \/ RemoveObserver(t)

\* every thread is scheduled again and again
FairSpec == Spec /\ \A t \in Threads : WF_vars(Continue(t))

\* ------------------------------------------------ the relay client: steps
\* the lines the relay sends: a workbench.dataFrame with a "source" member,
\* a line that is not JSON ("junk"), a JSON value of another shape than a
\* request ("shape": its "method" is not a string, or it is no object) and
\* a notification of a method the client does not know ("other")
Inbound ==
    {[kind |-> k, id |-> "a"] : k \in {"frame+source", "junk", "shape", "other"}}

\* the registry calls of handleIncomingMessage for message m, in order
RegistryCallsOf(m) ==
    IF m.kind = "frame+source"
    THEN <<[op |-> "registerSource", id |-> m.id], [op |-> "update", id |-> m.id]>>
    ELSE IF m.kind = "frame" THEN <<[op |-> "update", id |-> m.id]>>
    ELSE IF m.kind = "metadata" THEN <<[op |-> "registerSource", id |-> m.id]>>
    ELSE <<>>

\* history: the client is stopped (stop() has returned or start() was never called)
Stopped == lifecycle = "idle" /\ ~running_

\* closeSocket(): fd = socketFd_.exchange(-1); if (fd >= 0) ::close(fd)
ClosedSocket == open \ {socketFd_}
CloseSocket ==
    /\ socketFd_' = -1
    /\ open' = ClosedSocket

\* the process runs: std::terminate was not called and no signal ended it
Alive == ~aborted /\ ~sigpipe

\* ::send(fd, data, size, 0), without MSG_NOSIGNAL, on a connection that
\* the relay has closed raises SIGPIPE
Sigpipe(fd) == fd >= 0 /\ fd \in open /\ fd \notin peerOpen

\* a send that writes whatever the descriptor is
WritableAlways(fd) == TRUE

\* a send can put bytes on the connection of fd when both ends are open
Writable(fd) == fd >= 0 /\ fd \in open /\ fd \in peerOpen

\* sendJson: nothing without a socket (fd < 0) or when ::send fails; else
\* the message is written to the connection of socketFd_
SendJson(method, sourceId, from) ==
    IF Writable(socketFd_)
    THEN Append(events, [kind |-> "sent", conn |-> socketFd_, method |-> method,
                         sourceId |-> sourceId, from |-> from, tracked |-> {}])
    ELSE events

\* history: a control function is called with args; tracked says whether
\* its first argument is in the tracked list then
NoteCall(op, args) ==
    callsMade \cup {[op |-> op, args |-> args,
                     tracked |-> args[1] \in Range(subscribedSources_)]}

\* ---- start() and stop(), called by one thread
\* a start() that does not look at running_
AlreadyRunningIgnored == FALSE

\* if (running_) return
AlreadyRunning == running_

Start ==
    /\ lifecycle = "idle" /\ Alive
    /\ Spent < MaxClientEvents
    /\ requests' = requests + 1
    /\ lifecycleLog' = Append(lifecycleLog, "start")
    /\ IF AlreadyRunning
       THEN UNCHANGED <<running_, worker_, liveWorkers, aborted, restart>>
       ELSE /\ running_' = TRUE
            /\ restart' = IF restart.stopped
                          THEN [restart EXCEPT !.first = conns + 1, !.intent = restart.tracked]
                          ELSE restart
            \* worker_ = std::thread(&run, this): the thread starts, and the
            \* assignment to a joinable std::thread calls std::terminate
            /\ liveWorkers' = liveWorkers + 1
            /\ IF worker_ = "none"
               THEN worker_' = "top" /\ UNCHANGED aborted
               ELSE aborted' = TRUE /\ UNCHANGED worker_
    /\ UNCHANGED <<socketFd_, subscribedSources_, subscriptionsMutex_, wfd, wi, wmsg,
                   lifecycle, caller, open, peerOpen, conns, events, regCalls, stoppedAt,
                   inbound>>
    /\ UNCHANGED <<callsMade, lastEffect, lastDone, overtaken, sigpipe>>

\* if (!running_) return; running_ = false
StopBegin ==
    /\ lifecycle = "idle" /\ Alive
    /\ Spent < MaxClientEvents
    /\ requests' = requests + 1
    /\ lifecycleLog' = Append(lifecycleLog, "stop")
    /\ IF ~running_
       THEN UNCHANGED <<running_, lifecycle, stoppedAt, restart>>
       ELSE /\ running_' = FALSE
            /\ lifecycle' = "stop_close"
            /\ stoppedAt' = worker_
            /\ restart' = [restart EXCEPT !.stopped = TRUE,
                                           !.tracked = Range(subscribedSources_)]
    /\ UNCHANGED <<socketFd_, subscribedSources_, subscriptionsMutex_, worker_, wfd, wi,
                   wmsg, liveWorkers, aborted, caller, open, peerOpen, conns, events,
                   regCalls, inbound>>
    /\ UNCHANGED <<callsMade, lastEffect, lastDone, overtaken, sigpipe>>

\* closeSocket()
StopClose ==
    /\ lifecycle = "stop_close" /\ Alive
    /\ CloseSocket
    /\ lifecycle' = "stop_join"
    /\ UNCHANGED <<running_, subscribedSources_, subscriptionsMutex_, worker_, wfd, wi,
                   wmsg, liveWorkers, aborted, caller, peerOpen, conns, events, regCalls,
                   lifecycleLog, stoppedAt, restart, requests, inbound>>
    /\ UNCHANGED <<callsMade, lastEffect, lastDone, overtaken, sigpipe>>

\* a stop() that does not wait for the thread
JoinReturnsAtOnce == TRUE

\* worker_.join() returns when run() has returned
JoinReturns == worker_ = "done"

\* if (worker_.joinable()) worker_.join()
StopJoin ==
    /\ lifecycle = "stop_join" /\ Alive
    /\ IF worker_ = "none"
       THEN UNCHANGED <<worker_, liveWorkers>>
       ELSE /\ JoinReturns
            /\ IF worker_ = "done"
               THEN worker_' = "none" /\ liveWorkers' = liveWorkers - 1
               ELSE UNCHANGED <<worker_, liveWorkers>>
    /\ lifecycle' = "idle"
    /\ UNCHANGED <<running_, socketFd_, subscribedSources_, subscriptionsMutex_, wfd, wi,
                   wmsg, aborted, caller, open, peerOpen, conns, events, regCalls,
                   lifecycleLog, stoppedAt, restart, requests, inbound>>
    /\ UNCHANGED <<callsMade, lastEffect, lastDone, overtaken, sigpipe>>

\* ---- run(), on the worker thread
WorkerAt(pc) == worker_ = pc /\ Alive

\* while (running_)
WLoopTop ==
    /\ WorkerAt("top")
    /\ worker_' = IF running_ THEN "connect" ELSE "done"
    /\ UNCHANGED <<running_, socketFd_, subscribedSources_, subscriptionsMutex_, wfd, wi,
                   wmsg, liveWorkers, aborted, lifecycle, caller, open, peerOpen, conns,
                   events, regCalls, lifecycleLog, stoppedAt, restart, requests, inbound>>
    /\ UNCHANGED <<callsMade, lastEffect, lastDone, overtaken, sigpipe>>

\* connectSocket up to ::connect: closeSocket(), ::socket(), ::connect();
\* a failure throws and run() catches it
WConnect(ok) ==
    /\ WorkerAt("connect")
    /\ socketFd_' = -1
    /\ IF ok /\ Spent < MaxClientEvents
       THEN /\ conns' = conns + 1
            /\ open' = ClosedSocket \cup {conns + 1}
            /\ peerOpen' = peerOpen \cup {conns + 1}
            /\ wfd' = conns + 1
            /\ worker_' = "store_fd"
       ELSE /\ open' = ClosedSocket
            /\ worker_' = "after_try"
            /\ UNCHANGED <<conns, peerOpen, wfd>>
    /\ UNCHANGED <<running_, subscribedSources_, subscriptionsMutex_, wi, wmsg,
                   liveWorkers, aborted, lifecycle, caller, events, regCalls,
                   lifecycleLog, stoppedAt, restart, requests, inbound>>
    /\ UNCHANGED <<callsMade, lastEffect, lastDone, overtaken, sigpipe>>

\* socketFd_.store(fd); readBuffer_.clear()
WStoreFd ==
    /\ WorkerAt("store_fd")
    /\ socketFd_' = wfd
    /\ worker_' = "send_register"
    /\ UNCHANGED <<running_, subscribedSources_, subscriptionsMutex_, wfd, wi, wmsg,
                   liveWorkers, aborted, lifecycle, caller, open, peerOpen, conns, events,
                   regCalls, lifecycleLog, stoppedAt, restart, requests, inbound>>
    /\ UNCHANGED <<callsMade, lastEffect, lastDone, overtaken, sigpipe>>

\* sendRegisterClient()
WSendRegister ==
    /\ WorkerAt("send_register")
    /\ events' = SendJson("workbench.registerClient", "", "worker")
    /\ worker_' = "replay_lock"
    /\ UNCHANGED <<running_, socketFd_, subscribedSources_, subscriptionsMutex_, wfd, wi,
                   wmsg, liveWorkers, aborted, lifecycle, caller, open, peerOpen, conns,
                   regCalls, lifecycleLog, stoppedAt, restart, requests, inbound>>
    /\ sigpipe' = Sigpipe(socketFd_)
    /\ UNCHANGED <<callsMade, lastEffect, lastDone, overtaken>>

\* a loop that leaves out the first entry
ReplayFirstSkipped == 1 + 1

\* for (const auto& sourceId : subscribedSources_): where the loop begins
ReplayFirst == 1

\* resendSubscriptions: std::lock_guard lock(subscriptionsMutex_)
WReplayLock ==
    /\ WorkerAt("replay_lock")
    /\ subscriptionsMutex_ = NoThread
    /\ subscriptionsMutex_' = "worker"
    /\ wi' = ReplayFirst
    /\ worker_' = "replay"
    /\ events' = Append(events, [kind |-> "replay", conn |-> wfd, method |-> "",
                                  sourceId |-> "", from |-> "worker",
                                  tracked |-> Range(subscribedSources_)])
    /\ UNCHANGED <<running_, socketFd_, subscribedSources_, wfd, wmsg, liveWorkers,
                   aborted, lifecycle, caller, open, peerOpen, conns, regCalls,
                   lifecycleLog, stoppedAt, restart, requests, inbound>>
    /\ UNCHANGED <<callsMade, lastEffect, lastDone, overtaken, sigpipe>>

\* one iteration of the loop: sendSubscriptionMessage(sourceId)
WReplaySend ==
    /\ WorkerAt("replay")
    /\ wi <= Len(subscribedSources_)
    /\ events' = SendJson("workbench.subscribe", subscribedSources_[wi], "replay")
    /\ wi' = wi + 1
    /\ UNCHANGED <<running_, socketFd_, subscribedSources_, subscriptionsMutex_, worker_,
                   wfd, wmsg, liveWorkers, aborted, lifecycle, caller, open, peerOpen,
                   conns, regCalls, lifecycleLog, stoppedAt, restart, requests, inbound>>
    /\ sigpipe' = Sigpipe(socketFd_)
    /\ UNCHANGED <<callsMade, lastEffect, lastDone, overtaken>>

\* the loop is over and the lock_guard is destroyed
WReplayDone ==
    /\ WorkerAt("replay")
    /\ wi > Len(subscribedSources_)
    /\ subscriptionsMutex_' = NoThread
    /\ worker_' = "read_enter"
    /\ UNCHANGED <<running_, socketFd_, subscribedSources_, wfd, wi, wmsg, liveWorkers,
                   aborted, lifecycle, caller, open, peerOpen, conns, events, regCalls,
                   lifecycleLog, stoppedAt, restart, requests, inbound>>
    /\ UNCHANGED <<callsMade, lastEffect, lastDone, overtaken, sigpipe>>

\* readLoop: const int fd = socketFd_.load(); if (fd < 0) return
WReadEnter ==
    /\ WorkerAt("read_enter")
    /\ wfd' = socketFd_
    /\ worker_' = IF socketFd_ < 0 THEN "after_try" ELSE "read_check"
    /\ UNCHANGED <<running_, socketFd_, subscribedSources_, subscriptionsMutex_, wi, wmsg,
                   liveWorkers, aborted, lifecycle, caller, open, peerOpen, conns, events,
                   regCalls, lifecycleLog, stoppedAt, restart, requests, inbound>>
    /\ UNCHANGED <<callsMade, lastEffect, lastDone, overtaken, sigpipe>>

\* while (running_)
WReadCheck ==
    /\ WorkerAt("read_check")
    /\ worker_' = IF running_ THEN "recv" ELSE "read_close"
    /\ UNCHANGED <<running_, socketFd_, subscribedSources_, subscriptionsMutex_, wfd, wi,
                   wmsg, liveWorkers, aborted, lifecycle, caller, open, peerOpen, conns,
                   events, regCalls, lifecycleLog, stoppedAt, restart, requests, inbound>>
    /\ UNCHANGED <<callsMade, lastEffect, lastDone, overtaken, sigpipe>>

\* ::recv returns a line of the relay
WRecvMessage(m) ==
    /\ WorkerAt("recv")
    /\ wfd \in open /\ wfd \in peerOpen
    /\ Spent < MaxClientEvents
    /\ inbound' = inbound + 1
    /\ wmsg' = m
    /\ worker_' = "handle"
    /\ UNCHANGED <<running_, socketFd_, subscribedSources_, subscriptionsMutex_, wfd, wi,
                   liveWorkers, aborted, lifecycle, caller, open, peerOpen, conns, events,
                   regCalls, lifecycleLog, stoppedAt, restart, requests>>
    /\ UNCHANGED <<callsMade, lastEffect, lastDone, overtaken, sigpipe>>

\* a read that stays blocked when its descriptor is closed
RecvEndsOnPeerCloseOnly == wfd \notin peerOpen

\* ::recv returns 0 (the relay closed) or fails (the descriptor was closed
\* by closeSocket, which unblocks the read)
RecvEnds == wfd \notin peerOpen \/ wfd \notin open

WRecvClosed ==
    /\ WorkerAt("recv")
    /\ RecvEnds
    /\ worker_' = "read_close"
    /\ UNCHANGED <<running_, socketFd_, subscribedSources_, subscriptionsMutex_, wfd, wi,
                   wmsg, liveWorkers, aborted, lifecycle, caller, open, peerOpen, conns,
                   events, regCalls, lifecycleLog, stoppedAt, restart, requests, inbound>>
    /\ UNCHANGED <<callsMade, lastEffect, lastDone, overtaken, sigpipe>>

\* ::recv fails with EINTR: continue
WRecvInterrupted ==
    /\ WorkerAt("recv")
    /\ worker_' = "read_check"
    /\ UNCHANGED <<running_, socketFd_, subscribedSources_, subscriptionsMutex_, wfd, wi,
                   wmsg, liveWorkers, aborted, lifecycle, caller, open, peerOpen, conns,
                   events, regCalls, lifecycleLog, stoppedAt, restart, requests, inbound>>
    /\ UNCHANGED <<callsMade, lastEffect, lastDone, overtaken, sigpipe>>

\* history: the registry calls of message m, marked with whether the client
\* is stopped when they are made
NoteRegistryCalls(m) ==
    regCalls \o [k \in 1..Len(RegistryCallsOf(m)) |->
                    [op |-> RegistryCallsOf(m)[k].op, id |-> RegistryCallsOf(m)[k].id,
                     stopped |-> Stopped]]

\* a handler that lets the exceptions of the JSON library through
HandleEndsOnJsonError(m, throws) == throws \/ m.kind \in {"junk", "shape"}

\* whether an exception leaves handleIncomingMessage: the json and JsonRpc
\* exceptions are caught there, one thrown inside update is not
HandleEnds(m, throws) == throws

\* handleIncomingMessage(message); an exception that is not a json or
\* JsonRpc exception (one thrown by an observer) leaves readLoop and is
\* caught in run()
WHandle(throws) ==
    /\ WorkerAt("handle")
    /\ throws => \E k \in 1..Len(RegistryCallsOf(wmsg)) : RegistryCallsOf(wmsg)[k].op = "update"
    /\ regCalls' = NoteRegistryCalls(wmsg)
    /\ events' = Append(events, [kind |-> "handled", conn |-> wfd, method |-> wmsg.kind,
                                  sourceId |-> wmsg.id, from |-> "relay", tracked |-> {}])
    /\ wmsg' = NoMessage
    /\ worker_' = IF HandleEnds(wmsg, throws) THEN "after_try" ELSE "read_check"
    /\ UNCHANGED <<running_, socketFd_, subscribedSources_, subscriptionsMutex_, wfd, wi,
                   liveWorkers, aborted, lifecycle, caller, open, peerOpen, conns,
                   lifecycleLog, stoppedAt, restart, requests, inbound>>
    /\ UNCHANGED <<callsMade, lastEffect, lastDone, overtaken, sigpipe>>

\* closeSocket() at the end of readLoop
WReadClose ==
    /\ WorkerAt("read_close")
    /\ CloseSocket
    /\ worker_' = "after_try"
    /\ UNCHANGED <<running_, subscribedSources_, subscriptionsMutex_, wfd, wi, wmsg,
                   liveWorkers, aborted, lifecycle, caller, peerOpen, conns, events,
                   regCalls, lifecycleLog, stoppedAt, restart, requests, inbound>>
    /\ UNCHANGED <<callsMade, lastEffect, lastDone, overtaken, sigpipe>>

\* if (!running_) break
BreakAfterTry == ~running_

WAfterTry ==
    /\ WorkerAt("after_try")
    /\ worker_' = IF BreakAfterTry THEN "done" ELSE "sleep"
    /\ UNCHANGED <<running_, socketFd_, subscribedSources_, subscriptionsMutex_, wfd, wi,
                   wmsg, liveWorkers, aborted, lifecycle, caller, open, peerOpen, conns,
                   events, regCalls, lifecycleLog, stoppedAt, restart, requests, inbound>>
    /\ UNCHANGED <<callsMade, lastEffect, lastDone, overtaken, sigpipe>>

\* std::this_thread::sleep_for(options_.reconnectDelay); while (running_)
WSleep ==
    /\ WorkerAt("sleep")
    /\ worker_' = IF running_ THEN "connect" ELSE "done"
    /\ UNCHANGED <<running_, socketFd_, subscribedSources_, subscriptionsMutex_, wfd, wi,
                   wmsg, liveWorkers, aborted, lifecycle, caller, open, peerOpen, conns,
                   events, regCalls, lifecycleLog, stoppedAt, restart, requests, inbound>>
    /\ UNCHANGED <<callsMade, lastEffect, lastDone, overtaken, sigpipe>>

\* ---- the relay
\* the relay closes a connection
RelayClose(c) ==
    /\ c \in peerOpen
    /\ peerOpen' = peerOpen \ {c}
    /\ UNCHANGED <<running_, socketFd_, subscribedSources_, subscriptionsMutex_, worker_,
                   wfd, wi, wmsg, liveWorkers, aborted, lifecycle, caller, open, conns,
                   events, regCalls, lifecycleLog, stoppedAt, restart, requests, inbound>>
    /\ UNCHANGED <<callsMade, lastEffect, lastDone, overtaken, sigpipe>>

\* ---- subscribeSource, unsubscribeSource, requestMetricReset
\* the calling threads are alike: the second one is used only while the
\* first one is inside a call
CanRequest(c) ==
    /\ caller[c].pc = "idle" /\ Alive
    /\ Spent < MaxClientEvents
    /\ c = "u2" => caller["u1"].pc # "idle"

\* the sourceIds are alike: "b" is used only after "a" was
CanUse(sourceId) == sourceId = "b" => lastEffect["a"] # "none"

\* history: thread c goes through its block for sourceId; another thread
\* that went through its own for the same sourceId has not returned yet
NoteOvertaken(c, sourceId) ==
    IF \E d \in Callers \ {c} : caller[d].pc = "send" /\ caller[d].sourceId = sourceId
    THEN overtaken \cup {sourceId}
    ELSE overtaken

\* an argument check that lets every string through
EmptyNever(str) == FALSE

\* std::string::empty()
Empty(str) == str = ""

\* a search that finds nothing
FoundNever(sourceId) == FALSE

\* std::find(subscribedSources_.begin(), subscribedSources_.end(), sourceId)
\* is not end()
Found(sourceId) == sourceId \in Range(subscribedSources_)

\* a subscription that is kept only when there is a connection
PushBackSourceIfConnected(sourceId) ==
    IF socketFd_ >= 0 THEN Append(subscribedSources_, sourceId) ELSE subscribedSources_

\* subscribedSources_.push_back(sourceId)
PushBackSource(sourceId) == Append(subscribedSources_, sourceId)

\* the block under subscriptionsMutex_ of subscribeSource: push_back when
\* std::find does not find sourceId; shouldSend says whether it did
SubscribeSource(c, sourceId) ==
    /\ CanRequest(c)
    /\ CanUse(sourceId)
    /\ requests' = requests + 1
    /\ callsMade' = NoteCall("subscribeSource", <<sourceId>>)
    /\ IF Empty(sourceId)
       THEN UNCHANGED <<subscribedSources_, caller, lastEffect, lastDone, overtaken>>
       ELSE /\ subscriptionsMutex_ = NoThread
            /\ overtaken' = NoteOvertaken(c, sourceId)
            /\ lastEffect' = [lastEffect EXCEPT ![sourceId] = "subscribeSource"]
            /\ IF ~Found(sourceId)
               THEN /\ subscribedSources_' = PushBackSource(sourceId)
                    /\ caller' = [caller EXCEPT ![c] =
                                     [pc |-> "send", method |-> "workbench.subscribe",
                                      sourceId |-> sourceId]]
                    /\ UNCHANGED lastDone
               ELSE /\ lastDone' = [lastDone EXCEPT ![sourceId] = "subscribeSource"]
                    /\ UNCHANGED <<subscribedSources_, caller>>
    /\ UNCHANGED <<running_, socketFd_, subscriptionsMutex_, worker_, wfd, wi, wmsg,
                   liveWorkers, aborted, lifecycle, open, peerOpen, conns, events,
                   regCalls, lifecycleLog, stoppedAt, restart, inbound, sigpipe>>

\* a removal that erases nothing
WithoutNothing(list, sourceId) == list

\* std::remove + erase: the list without sourceId
Without(list, sourceId) ==
    IF list = <<>> THEN <<>>
    ELSE [k \in 1..Cardinality({x \in 1..Len(list) : list[x] # sourceId}) |->
             list[CHOOSE x \in 1..Len(list) :
                     /\ list[x] # sourceId
                     /\ Cardinality({y \in 1..x : list[y] # sourceId}) = k]]

\* the block under subscriptionsMutex_ of unsubscribeSource
UnsubscribeSource(c, sourceId) ==
    /\ CanRequest(c)
    /\ CanUse(sourceId)
    /\ requests' = requests + 1
    /\ callsMade' = NoteCall("unsubscribeSource", <<sourceId>>)
    /\ IF Empty(sourceId)
       THEN UNCHANGED <<subscribedSources_, caller, lastEffect, lastDone, overtaken>>
       ELSE /\ subscriptionsMutex_ = NoThread
            /\ overtaken' = NoteOvertaken(c, sourceId)
            /\ lastEffect' = [lastEffect EXCEPT ![sourceId] = "unsubscribeSource"]
            /\ IF Found(sourceId)
               THEN /\ subscribedSources_' = Without(subscribedSources_, sourceId)
                    /\ caller' = [caller EXCEPT ![c] =
                                     [pc |-> "send", method |-> "workbench.unsubscribe",
                                      sourceId |-> sourceId]]
                    /\ UNCHANGED lastDone
               ELSE /\ lastDone' = [lastDone EXCEPT ![sourceId] = "unsubscribeSource"]
                    /\ UNCHANGED <<subscribedSources_, caller>>
    /\ UNCHANGED <<running_, socketFd_, subscriptionsMutex_, worker_, wfd, wi, wmsg,
                   liveWorkers, aborted, lifecycle, open, peerOpen, conns, events,
                   regCalls, lifecycleLog, stoppedAt, restart, inbound, sigpipe>>

\* if (shouldSend) send(Un)SubscriptionMessage(sourceId)
CallerSend(c) ==
    /\ caller[c].pc = "send" /\ Alive
    /\ events' = SendJson(caller[c].method, caller[c].sourceId, c)
    /\ caller' = [caller EXCEPT ![c] = [pc |-> "idle", method |-> "", sourceId |-> ""]]
    /\ lastDone' = [lastDone EXCEPT ![caller[c].sourceId] =
                        IF caller[c].method = "workbench.subscribe"
                        THEN "subscribeSource" ELSE "unsubscribeSource"]
    /\ sigpipe' = Sigpipe(socketFd_)
    /\ UNCHANGED <<callsMade, lastEffect, overtaken>>
    /\ UNCHANGED <<running_, socketFd_, subscribedSources_, subscriptionsMutex_, worker_,
                   wfd, wi, wmsg, liveWorkers, aborted, lifecycle, open, peerOpen, conns,
                   regCalls, lifecycleLog, stoppedAt, restart, requests, inbound>>

\* requestMetricReset(sourceId, channelId, metric): nothing when one of
\* the arguments is empty, else sendJson(request)
RequestMetricReset(c, sourceId, channelId, metric) ==
    /\ CanRequest(c)
    /\ requests' = requests + 1
    /\ callsMade' = NoteCall("requestMetricReset", <<sourceId, channelId, metric>>)
    /\ events' = IF Empty(sourceId) \/ Empty(channelId) \/ Empty(metric)
                 THEN events
                 ELSE SendJson("workbench.resetMetric", sourceId, c)
    /\ sigpipe' = (~(Empty(sourceId) \/ Empty(channelId) \/ Empty(metric)) /\ Sigpipe(socketFd_))
    /\ UNCHANGED <<lastEffect, lastDone, overtaken>>
    /\ UNCHANGED <<running_, socketFd_, subscribedSources_, subscriptionsMutex_, worker_,
                   wfd, wi, wmsg, liveWorkers, aborted, lifecycle, caller, open, peerOpen,
                   conns, regCalls, lifecycleLog, stoppedAt, restart, inbound>>

\* the steps of the worker thread that do not wait for a signal to arrive
WorkerStep ==
    \/ WLoopTop
    \/ \E ok \in BOOLEAN : WConnect(ok)
    \/ WStoreFd
    \/ WSendRegister
    \/ WReplayLock
    \/ WReplaySend
    \/ WReplayDone
    \/ WReadEnter
    \/ WReadCheck
    \/ \E m \in Inbound : WRecvMessage(m)
    \/ WRecvClosed
    \/ \E throws \in BOOLEAN : WHandle(throws)
    \/ WReadClose
    \/ WAfterTry
    \/ WSleep

ClientNext ==
    \/ Start
    \/ StopBegin
    \/ StopClose
    \/ StopJoin
    \/ WorkerStep
    \/ WRecvInterrupted
    \/ \E c \in peerOpen : RelayClose(c)
    \/ \E c \in Callers, sourceId \in ClientIds : SubscribeSource(c, sourceId)
    \/ \E c \in Callers, sourceId \in ClientIds : UnsubscribeSource(c, sourceId)
    \/ \E c \in Callers : CallerSend(c)
    \/ \E c \in Callers, a \in ResetArgs : RequestMetricReset(c, a[1], a[2], a[3])

\* the relay client with its worker, its callers and the relay; the
\* registry is the one just constructed and its calls are recorded only
\* a client constructed over an empty registry
InitClient ==
    InitEmpty /\ InitUnlocked /\ ClientInit /\ PublishIdle /\ MetadataIdle /\ OthersIdle

ClientSpec ==
    InitClient /\ [][ClientNext /\ UNCHANGED <<vars, pvars, mvars, ovars>>]_allvars

\* the worker and the thread inside stop() are scheduled again and again
FairClientSpec ==
    /\ ClientSpec
    /\ WF_cvars(WorkerStep)
    /\ WF_cvars(StopClose)
    /\ WF_cvars(StopJoin)

\* the client after subscribeSource("a"), start() and stop() have returned
\* one after the other, the stop() having found the worker before its
\* first connection attempt: "a" is tracked, nothing was sent and no thread
\* is left; the counts of the calls, connections and messages begin here
ClientInitStopped ==
    /\ running_ = FALSE
    /\ socketFd_ = -1
    /\ subscribedSources_ = <<"a">>
    /\ subscriptionsMutex_ = NoThread
    /\ worker_ = "none"
    /\ wfd = -1 /\ wi = 0 /\ wmsg = NoMessage
    /\ liveWorkers = 0
    /\ aborted = FALSE
    /\ lifecycle = "idle"
    /\ caller = [c \in Callers |-> [pc |-> "idle", method |-> "", sourceId |-> ""]]
    /\ open = {} /\ peerOpen = {} /\ conns = 0
    /\ events = <<>> /\ regCalls = <<>> /\ lifecycleLog = <<"start", "stop">>
    /\ stoppedAt = "top"
    /\ requests = 0 /\ inbound = 0
    /\ callsMade = {[op |-> "subscribeSource", args |-> <<"a">>, tracked |-> FALSE]}
    /\ lastEffect = [id \in SourceIds |-> IF id = "a" THEN "subscribeSource" ELSE "none"]
    /\ lastDone = [id \in SourceIds |-> IF id = "a" THEN "subscribeSource" ELSE "none"]
    /\ overtaken = {}
    /\ sigpipe = FALSE
    /\ restart = [stopped |-> TRUE, tracked |-> {"a"}, first |-> 0, intent |-> {}]

InitRestart ==
    InitEmpty /\ InitUnlocked /\ ClientInitStopped /\ PublishIdle /\ MetadataIdle /\ OthersIdle

\* the client that is started again after a stop(), with one subscription kept
RestartSpec ==
    InitRestart /\ [][ClientNext /\ UNCHANGED <<vars, pvars, mvars, ovars>>]_allvars

\* ------------------------------------------- publishFrameFromJson: steps
\* The worker thread of the relay client handles one workbench.dataFrame
\* notification; it is thread t2 of the registry.  The other thread makes
\* no new call and only goes on with the call it is in.
PublishThread == "t2"
OtherThreads == Threads \ {PublishThread}

\* the index of each alternative of
\* std::variant<std::monostate, NumericSample, WaveformSample, SerialSample,
\*              LogicSample, GpioState>
DataPayload ==
    [monostate |-> 0, NumericSample |-> 1, WaveformSample |-> 2, SerialSample |-> 3,
     LogicSample |-> 4, GpioState |-> 5]

\* the key sets of the points the relay sends: none, each single key, and
\* pairs of keys
KeySets ==
    {{}, {"numeric"}, {"waveform"}, {"serial"}, {"logic"}, {"gpio"},
     {"numeric", "waveform"}, {"waveform", "serial"}, {"serial", "logic"}, {"logic", "gpio"}}

JsonPoints ==
    {JsonPoint("ch1", has, TRUE) : has \in KeySets}
        \cup {JsonPoint(NoMember, {"numeric"}, TRUE), JsonPoint("ch1", {"serial"}, FALSE)}

JsonPointLists == UNION {[1..n -> JsonPoints] : n \in 0..MaxPoints}

JsonSources ==
    {JsonSource(FALSE, TRUE, NoMember, NoMember),
     JsonSource(TRUE, TRUE, NoMember, NoMember),
     JsonSource(TRUE, TRUE, "", NoMember),
     JsonSource(TRUE, TRUE, "a", NoMember),
     JsonSource(TRUE, TRUE, "a", "n2"),
     JsonSource(TRUE, TRUE, "b", NoMember),
     JsonSource(TRUE, FALSE, "a", NoMember)}

JsonFrames ==
    {JsonFrame(FALSE, NoMember, <<>>)}
        \cup {JsonFrame(TRUE, id, points) :
                 id \in {NoMember, ""} \cup SourceIds, points \in JsonPointLists}

Notifications == {[source |-> src, frame |-> f] : src \in JsonSources, f \in JsonFrames}

\* json.value(key, default): the member, or the default when it is absent
Value(member, default) == IF member = NoMember THEN default ELSE member

\* metadata.id = sourceJson.value("id", "");
\* metadata.name = sourceJson.value("name", metadata.id);
\* a default-constructed SourceMetadata when params has no source
MetadataOf(n) ==
    IF n.source.present
    THEN SourceMetadata(Value(n.source.id, ""), Value(n.source.name, Value(n.source.id, "")))
    ELSE SourceMetadata("", "")

\* sourceId = frameJson.value("sourceId", metadata.id)
FrameSourceId(n) == Value(n.frame.sourceId, MetadataOf(n).id)

\* the chain with its first two tests exchanged
PayloadOfWaveformFirst(pointJson) ==
    IF "waveform" \in pointJson.has THEN DataPayload.WaveformSample
    ELSE IF "numeric" \in pointJson.has THEN DataPayload.NumericSample
    ELSE IF "serial" \in pointJson.has THEN DataPayload.SerialSample
    ELSE IF "logic" \in pointJson.has THEN DataPayload.LogicSample
    ELSE IF "gpio" \in pointJson.has THEN DataPayload.GpioState
    ELSE DataPayload.monostate

\* the if / else if chain over pointJson.contains(...): the alternative
\* that point.payload is set to
PayloadOf(pointJson) ==
    IF "numeric" \in pointJson.has THEN DataPayload.NumericSample
    ELSE IF "waveform" \in pointJson.has THEN DataPayload.WaveformSample
    ELSE IF "serial" \in pointJson.has THEN DataPayload.SerialSample
    ELSE IF "logic" \in pointJson.has THEN DataPayload.LogicSample
    ELSE IF "gpio" \in pointJson.has THEN DataPayload.GpioState
    ELSE DataPayload.monostate

\* the body of the loop over pointsJson
ConvertPoint(pointJson) == DataPoint(Value(pointJson.channelId, ""), PayloadOf(pointJson))

RECURSIVE ConvertPoints(_)
\* for (const auto& pointJson : pointsJson) ... frame.points.push_back(point)
ConvertPoints(pointsJson) ==
    IF pointsJson = <<>> THEN <<>>
    ELSE <<ConvertPoint(Head(pointsJson))>> \o ConvertPoints(Tail(pointsJson))

\* a member read as another type than it has: nlohmann::json throws a
\* type_error, which handleIncomingMessage catches
ThrowsTypeError(pointsJson) == \E k \in 1..Len(pointsJson) : ~pointsJson[k].typed

\* from the head of the function to the call of registerSource
PublishBegin ==
    /\ ppc = "begin"
    /\ IF ~note.frame.present
       THEN ppc' = "done" /\ UNCHANGED vars
       ELSE IF note.source.present /\ ~note.source.typed
       THEN ppc' = "dropped" /\ UNCHANGED vars
       ELSE IF note.source.present /\ ~Empty(MetadataOf(note).id)
       THEN /\ RegisterSourceLock(PublishThread, MetadataOf(note).id, MetadataOf(note).name)
            /\ ppc' = "registering"
       ELSE ppc' = "frame" /\ UNCHANGED vars
    /\ UNCHANGED <<note, pseq>>

\* registry_.registerSource(metadata) returns
PublishRegistered ==
    /\ ppc = "registering"
    /\ RegisterSource(PublishThread)
    /\ ppc' = "frame"
    /\ UNCHANGED <<note, pseq>>

\* from frameJson to the call of registry_.update(frame)
PublishConvert ==
    /\ ppc = "frame"
    /\ IF Empty(FrameSourceId(note))
       THEN ppc' = "done" /\ UNCHANGED vars
       ELSE IF ThrowsTypeError(note.frame.points)
       THEN ppc' = "dropped" /\ UNCHANGED vars
       ELSE /\ UpdateLock(PublishThread, FrameSourceId(note), ConvertPoints(note.frame.points))
            /\ ppc' = "updating"
    /\ UNCHANGED <<note, pseq>>

\* inside registry_.update(frame)
PublishStore ==
    /\ ppc = "updating"
    /\ UpdateStore(PublishThread)
    /\ pseq' = Len(stores) + 1
    /\ UNCHANGED <<note, ppc>>

PublishInvoke ==
    /\ ppc = "updating"
    /\ UpdateInvoke(PublishThread)
    /\ UNCHANGED pvars

PublishCallbackReturn ==
    /\ ppc = "updating"
    /\ CallbackReturn(PublishThread)
    /\ UNCHANGED pvars

\* registry_.update(frame) returns, and publishFrameFromJson with it
PublishReturn ==
    /\ ppc = "updating"
    /\ UpdateReturn(PublishThread)
    /\ ppc' = "done"
    /\ UNCHANGED <<note, pseq>>

\* a thread that is inside update goes on and returns
OtherThreadReturns ==
    /\ \E t \in OtherThreads : CallbackReturn(t) \/ UpdateReturn(t)
    /\ UNCHANGED pvars

PublishNext ==
    \/ PublishBegin
    \/ PublishRegistered
    \/ PublishConvert
    \/ PublishStore
    \/ PublishInvoke
    \/ PublishCallbackReturn
    \/ PublishReturn
    \/ OtherThreadReturns

\* one notification, of any of the shapes above, handed to
\* publishFrameFromJson on a registry in any of its three initial states
InitPublish ==
    /\ InitEmpty \/ InitOneSource \/ InitInCallback
    /\ InitUnlocked
    /\ ClientInit
    /\ note \in Notifications
    /\ ppc = "begin"
    /\ pseq = 0
    /\ MetadataIdle
    /\ OthersIdle

PublishSpec ==
    InitPublish /\ [][PublishNext /\ UNCHANGED <<cvars, mvars, ovars>>]_allvars

\* ------------------------------------------- workbench.metadata: steps
\* The worker thread of the relay client handles one workbench.metadata
\* notification; it is thread t2 of the registry, as above.
MaxEntries == 2

\* the entries the relay sends, as JsonSource records: a value that is no
\* object, objects without "id" (one of them with a member of another type
\* than the code reads it as), objects with "id", one of them ill-typed
JsonEntries ==
    {JsonSource(FALSE, TRUE, NoMember, NoMember),
     JsonSource(TRUE, TRUE, NoMember, NoMember),
     JsonSource(TRUE, FALSE, NoMember, "n2"),
     JsonSource(TRUE, TRUE, "", NoMember),
     JsonSource(TRUE, TRUE, "a", NoMember),
     JsonSource(TRUE, TRUE, "a", "n2"),
     JsonSource(TRUE, TRUE, "b", NoMember),
     JsonSource(TRUE, FALSE, "a", NoMember)}

\* meta.contains("id")
ContainsId(meta) == meta.present /\ meta.id # NoMember

\* the three shapes of params: one object (the entry itself), an array of
\* entries and an object whose member "sources" holds the entries
MetadataParams ==
    {[shape |-> "object", entries |-> <<e>>] : e \in JsonEntries}
        \cup {[shape |-> sh, entries |-> es] :
                 sh \in {"array", "sources"},
                 es \in UNION {[1..n -> JsonEntries] : n \in 0..MaxEntries}}

\* a loop that ends at the entry of position k
NextEntryNone(k) == Len(params.entries) + 1

\* the loop goes on with the entry after position k
NextEntry(k) == k + 1

\* registerMetadataFromJson(entry) from its head to the call of
\* registerSource: nothing for an entry without "id"; a member of another
\* type than it is read as makes nlohmann::json throw, which ends the
\* handling of the notification in handleIncomingMessage
MetadataEntry ==
    /\ mpc = "loop"
    /\ entryAt <= Len(params.entries)
    /\ LET meta == params.entries[entryAt]
       IN  IF ~ContainsId(meta)
           THEN /\ entryAt' = NextEntry(entryAt)
                /\ UNCHANGED <<vars, mpc>>
           ELSE IF ~meta.typed
           THEN /\ mpc' = "dropped"
                /\ UNCHANGED <<vars, entryAt>>
           ELSE /\ RegisterSourceLock(PublishThread, MetadataOf([source |-> meta]).id,
                                      MetadataOf([source |-> meta]).name)
                /\ mpc' = "registering"
                /\ UNCHANGED entryAt
    /\ UNCHANGED <<params, handed>>

\* registry_.registerSource(std::move(metadata)) returns
MetadataRegistered ==
    /\ mpc = "registering"
    /\ RegisterSource(PublishThread)
    /\ handed' = Append(handed, [entry |-> entryAt,
                                  metadata |-> MetadataOf([source |-> params.entries[entryAt]])])
    /\ entryAt' = NextEntry(entryAt)
    /\ mpc' = "loop"
    /\ UNCHANGED params

\* the loop is over and handleRelayNotification returns
MetadataReturn ==
    /\ mpc = "loop"
    /\ entryAt > Len(params.entries)
    /\ mpc' = "done"
    /\ UNCHANGED <<vars, params, entryAt, handed>>

\* a thread that is inside update goes on and returns
MetadataOtherThread ==
    /\ \E t \in OtherThreads : CallbackReturn(t) \/ UpdateReturn(t)
    /\ UNCHANGED mvars

MetadataNext ==
    \/ MetadataEntry
    \/ MetadataRegistered
    \/ MetadataReturn
    \/ MetadataOtherThread

\* one workbench.metadata notification, of any of the shapes above, handed
\* to handleRelayNotification on a registry in any of its three initial states
InitMetadata ==
    /\ InitEmpty \/ InitOneSource \/ InitInCallback
    /\ InitUnlocked
    /\ ClientInit
    /\ PublishIdle
    /\ OthersIdle
    /\ params \in MetadataParams
    /\ entryAt = 1 /\ mpc = "loop" /\ handed = <<>>

MetadataSpec ==
    InitMetadata
        /\ [][MetadataNext /\ UNCHANGED <<cvars, pvars, ovars>>]_allvars

\* handleRelayNotification: one notification of either method
InitNotification == InitPublish \/ InitMetadata

NotificationNext ==
    \/ PublishNext /\ UNCHANGED mvars
    \/ MetadataNext /\ UNCHANGED pvars

NotificationSpec ==
    InitNotification
        /\ [][NotificationNext /\ UNCHANGED <<cvars, ovars>>]_allvars

\* ------------------------------------------------------ readLoop: steps
\* The worker reads the bytes of two connections one after the other.
\* the registry and the rest of the client as constructed
Quiet == InitEmpty /\ InitUnlocked /\ ClientInit /\ PublishIdle /\ MetadataIdle
qvars == <<vars, cvars, pvars, mvars>>

MaxBytes == 4
\* constexpr std::size_t kChunkSize = 4096, made small
kChunkSize == 2

NewLine == "\n"
Bytes == {"x", NewLine}
ByteStrings == UNION {[1..n -> Bytes] : n \in 0..MaxBytes}

\* readBuffer_.find('\n'): the position of the first newline, counted from
\* 1; 0 stands for std::string::npos
FindNewLine(buffer) ==
    IF \E k \in 1..Len(buffer) : buffer[k] = NewLine
    THEN CHOOSE k \in 1..Len(buffer) :
             buffer[k] = NewLine /\ \A j \in 1..(k - 1) : buffer[j] # NewLine
    ELSE 0

\* a connection that goes on with the bytes left by the one before
ReadBufferKept == readBuffer_

\* readBuffer_.clear()
ReadBufferCleared == <<>>

\* connectSocket succeeds: socketFd_.store(fd); readBuffer_.clear()
ReadConnect ==
    /\ rpc = "connect"
    /\ rconn < Len(streams)
    /\ rconn' = rconn + 1
    /\ readBuffer_' = ReadBufferCleared
    /\ rpc' = "recv"
    /\ UNCHANGED <<streams, rpos, handedLines>>

\* ::recv returns n > 0 bytes, at most kChunkSize of those the relay has
\* sent and the worker has not read yet: readBuffer_.append(buffer.data(), n)
ReadRecv(n) ==
    /\ rpc = "recv"
    /\ n <= kChunkSize
    /\ rpos[rconn] + n <= Len(streams[rconn])
    /\ readBuffer_' = readBuffer_ \o SubSeq(streams[rconn], rpos[rconn] + 1, rpos[rconn] + n)
    /\ rpos' = [rpos EXCEPT ![rconn] = @ + n]
    /\ rpc' = "scan"
    /\ UNCHANGED <<streams, rconn, handedLines>>

\* one turn of the inner loop: message = readBuffer_.substr(0, newlinePos);
\* readBuffer_.erase(0, newlinePos + 1); handleIncomingMessage(message)
\* when it is not empty; back to ::recv when there is no newline
ScanLine ==
    /\ rpc = "scan"
    /\ LET newlinePos == FindNewLine(readBuffer_)
           message == SubSeq(readBuffer_, 1, newlinePos - 1)
       IN  IF newlinePos = 0
           THEN rpc' = "recv" /\ UNCHANGED <<readBuffer_, handedLines>>
           ELSE /\ readBuffer_' = SubSeq(readBuffer_, newlinePos + 1, Len(readBuffer_))
                /\ handedLines' = IF message # <<>>
                                  THEN Append(handedLines, [conn |-> rconn, message |-> message])
                                  ELSE handedLines
                /\ UNCHANGED rpc
    /\ UNCHANGED <<streams, rconn, rpos>>

\* errno == EINTR: continue
ReadInterrupted ==
    /\ rpc = "recv"
    /\ UNCHANGED rvars

\* the loop ends and closeSocket() is called: ::recv returns 0 (the relay
\* has closed and all its bytes were read) or fails (the connection is
\* reset, or stop() has closed the socket), or running_ is found false
ReadLoopEnds ==
    /\ rpc = "recv"
    /\ rpc' = "connect"
    /\ UNCHANGED <<streams, rconn, rpos, readBuffer_, handedLines>>

ReadNext ==
    \/ ReadConnect
    \/ \E n \in 1..kChunkSize : ReadRecv(n)
    \/ ScanLine
    \/ ReadInterrupted
    \/ ReadLoopEnds

\* the relay will send any two byte strings; the worker is about to connect
InitRead ==
    /\ Quiet /\ SendIdle /\ PluginIdle /\ LocksIdle
    /\ streams \in ByteStrings \X ByteStrings
    /\ rconn = 0
    /\ rpos = <<0, 0>>
    /\ readBuffer_ = <<>>
    /\ rpc = "connect"
    /\ handedLines = <<>>

ReadSpec == InitRead /\ [][ReadNext /\ UNCHANGED <<qvars, svars, gvars, lvars>>]_allvars

\* ------------------------------------------------------ sendJson: steps
\* The threads that call subscribeSource, unsubscribeSource and
\* requestMetricReset and the worker thread (registerClient, the replay)
\* all send through sendJson, on one connection that stays open.
Senders == Callers \cup {"worker"}
MaxSends == 3
\* the number of bytes of message.dump(), which holds no newline
DumpSize == 2
\* serialized = message.dump() + "\n": the position of its last byte
SerializedSize == DumpSize + 1

NotSending == [pc |-> "idle", msg |-> 0, total |-> 0]

\* fd = socketFd_.load() finds a connection; serialized is built
SendJsonBegin(t) ==
    /\ sending[t].pc = "idle"
    /\ sendsMade < MaxSends
    /\ sendsMade' = sendsMade + 1
    /\ sending' = [sending EXCEPT ![t] = [pc |-> "lock", msg |-> sendsMade + 1, total |-> 0]]
    /\ UNCHANGED <<wire, sendMutex_>>

\* std::lock_guard lock(sendMutex_); total = 0
SendJsonLock(t) ==
    /\ sending[t].pc = "lock"
    /\ sendMutex_ = NoThread
    /\ sendMutex_' = t
    /\ sending' = [sending EXCEPT ![t].pc = "loop"]
    /\ UNCHANGED <<wire, sendsMade>>

\* ::send(fd, data + total, size - total, 0) returns sent > 0: the kernel
\* has taken the next sent bytes; total += sent
SendSome(t, sent) ==
    /\ sending[t].pc = "loop"
    /\ sending[t].total + sent <= SerializedSize
    /\ wire' = wire \o [k \in 1..sent |-> [msg |-> sending[t].msg, at |-> sending[t].total + k]]
    /\ sending' = [sending EXCEPT ![t].total = @ + sent]
    /\ UNCHANGED <<sendMutex_, sendsMade>>

\* ::send returns sent <= 0 while the connection stays open (EINTR,
\* ENOBUFS, ENOMEM): break, and the lock is released
SendFails(t) ==
    /\ sending[t].pc = "loop"
    /\ sending[t].total < SerializedSize
    /\ sendMutex_' = NoThread
    /\ sending' = [sending EXCEPT ![t] = NotSending]
    /\ UNCHANGED <<wire, sendsMade>>

\* total == size: the loop ends, and the lock is released
SendJsonReturn(t) ==
    /\ sending[t].pc = "loop"
    /\ sending[t].total = SerializedSize
    /\ sendMutex_' = NoThread
    /\ sending' = [sending EXCEPT ![t] = NotSending]
    /\ UNCHANGED <<wire, sendsMade>>

SendNext ==
    \E t \in Senders :
        \/ SendJsonBegin(t)
        \/ SendJsonLock(t)
        \/ \E sent \in 1..SerializedSize : SendSome(t, sent)
        \/ SendFails(t)
        \/ SendJsonReturn(t)

\* a connection on which nothing was written yet
InitSend ==
    /\ Quiet /\ ReadIdle /\ PluginIdle /\ LocksIdle
    /\ wire = <<>>
    /\ sendMutex_ = NoThread
    /\ sending = [t \in Senders |-> NotSending]
    /\ sendsMade = 0

SendSpec == InitSend /\ [][SendNext /\ UNCHANGED <<qvars, rvars, gvars, lvars>>]_allvars

\* ------------------------------------------------- PluginManager: steps
\* The application thread calls initializeModules and shutdownModules on a
\* plugin manager whose modules were registered before; no other thread
\* uses the registry, so that each registry call is one step.  A module
\* publishes a frame for the first source it declares from initialize (as
\* DemoModule does) and does nothing in shutdown.
MaxModules == 2
MaxPluginCalls == 4
ModuleIds == {"m1", "m2"}
Declarations == {<<>>, <<"a">>, <<"b">>, <<"a", "b">>}
Modules == [id : ModuleIds, declares : Declarations]
ModuleLists == UNION {[1..n -> Modules] : n \in 0..MaxModules}

\* history: the number of initializeModules and shutdownModules calls made
PluginCalls ==
    Cardinality({k \in 1..Len(pmlog) : pmlog[k].op \in {"initializeModules", "shutdownModules"}})
Logged(op, module, sourceId) ==
    pmlog' = Append(pmlog, [op |-> op, module |-> module, sourceId |-> sourceId])

\* what the calls of the plugin manager leave alone in the registry
RegistryRest == <<nextObserverId_, mutex_, stack, received, issued, noopRemoves, calls>>

\* context_.dataRegistry.registerSource(std::move(meta))
RegistryRegisters(id) ==
    /\ metadata_' = StoreMetadata(SourceMetadata(id, id))
    /\ wasRegistered' = wasRegistered \cup {SourceMetadata(id, id)}
    /\ UNCHANGED <<latestFrames_, observers_, stores, erasedAt, removed, RegistryRest>>

\* context_.dataRegistry.unregisterSource(sourceId)
RegistryUnregisters(id) ==
    /\ metadata_' = Erase(metadata_, id)
    /\ latestFrames_' = Erase(latestFrames_, id)
    /\ observers_' = Erase(observers_, id)
    /\ erasedAt' = [erasedAt EXCEPT ![id] = Len(stores)]
    /\ removed' = NoteRemoved(TokensOf(observers_, id), "unregisterSource")
    /\ UNCHANGED <<stores, wasRegistered, RegistryRest>>

\* context.dataRegistry.update(frame), with no observer to invoke
RegistryUpdates(id) ==
    /\ latestFrames_' = StoreFrame(DataFrame(id, <<>>))
    /\ stores' = Append(stores, [frame |-> DataFrame(id, <<>>),
                                 expected |-> RegisteredTags(id),
                                 registered |-> isRegistered(id),
                                 open |-> {}, done |-> TRUE])
    /\ UNCHANGED <<metadata_, observers_, erasedAt, removed, wasRegistered, RegistryRest>>

\* an initializeModules that does not look at initialized_
AlreadyInitializedIgnored == FALSE

\* if (initialized_) return
AlreadyInitialized == initialized_

\* initializeModules is called
InitializeModulesBegin ==
    /\ pmpc = "idle"
    /\ PluginCalls < MaxPluginCalls
    /\ Logged("initializeModules", 0, "")
    /\ IF AlreadyInitialized
       THEN UNCHANGED <<pmpc, modAt>>
       ELSE pmpc' = "register" /\ modAt' = 1
    /\ UNCHANGED <<vars, modules_, moduleSources_, initialized_, srcAt>>

\* the first loop, for one module: ids = moduleSources_[module->id()];
\* ids.clear(); module->declareSources(); the second loop begins when all
\* modules are done
InitializeDeclare ==
    /\ pmpc = "register"
    /\ IF modAt <= Len(modules_)
       THEN /\ moduleSources_' = Put(moduleSources_, modules_[modAt].id, <<>>)
            /\ srcAt' = 1
            /\ pmpc' = "register_source"
            /\ UNCHANGED modAt
       ELSE /\ pmpc' = "initialize"
            /\ modAt' = 1
            /\ UNCHANGED <<moduleSources_, srcAt>>
    /\ UNCHANGED <<vars, modules_, initialized_, pmlog>>

\* ids.push_back(meta.id); context_.dataRegistry.registerSource(std::move(meta))
InitializeRegisterSource ==
    /\ pmpc = "register_source"
    /\ IF srcAt <= Len(modules_[modAt].declares)
       THEN /\ moduleSources_' =
                   Put(moduleSources_, modules_[modAt].id,
                       Append(moduleSources_[modules_[modAt].id], modules_[modAt].declares[srcAt]))
            /\ RegistryRegisters(modules_[modAt].declares[srcAt])
            /\ Logged("registerSource", modAt, modules_[modAt].declares[srcAt])
            /\ srcAt' = srcAt + 1
            /\ UNCHANGED <<pmpc, modAt>>
       ELSE /\ pmpc' = "register"
            /\ modAt' = modAt + 1
            /\ UNCHANGED <<vars, moduleSources_, srcAt, pmlog>>
    /\ UNCHANGED <<modules_, initialized_>>

\* the second loop: module->initialize(context_); initialized_ = true
\* after the last module
InitializeModule ==
    /\ pmpc = "initialize"
    /\ IF modAt <= Len(modules_)
       THEN /\ IF modules_[modAt].declares # <<>>
               THEN RegistryUpdates(modules_[modAt].declares[1])
               ELSE UNCHANGED vars
            /\ Logged("initialize", modAt, "")
            /\ modAt' = modAt + 1
            /\ UNCHANGED <<pmpc, initialized_>>
       ELSE /\ initialized_' = TRUE
            /\ pmpc' = "idle"
            /\ UNCHANGED <<vars, modAt, pmlog>>
    /\ UNCHANGED <<modules_, moduleSources_, srcAt>>

\* shutdownModules is called: if (!initialized_) return; the loop runs
\* from the last module to the first
ShutdownModulesBegin ==
    /\ pmpc = "idle"
    /\ PluginCalls < MaxPluginCalls
    /\ Logged("shutdownModules", 0, "")
    /\ IF ~initialized_
       THEN UNCHANGED <<pmpc, modAt>>
       ELSE pmpc' = "shutdown" /\ modAt' = Len(modules_)
    /\ UNCHANGED <<vars, modules_, moduleSources_, initialized_, srcAt>>

\* module->shutdown(context_); mapIt = moduleSources_.find(module->id());
\* initialized_ = false after the first module
ShutdownModule ==
    /\ pmpc = "shutdown"
    /\ IF modAt >= 1
       THEN /\ Logged("shutdown", modAt, "")
            /\ srcAt' = 1
            /\ pmpc' = "unregister"
            /\ UNCHANGED initialized_
       ELSE /\ initialized_' = FALSE
            /\ pmpc' = "idle"
            /\ UNCHANGED <<srcAt, pmlog>>
    /\ UNCHANGED <<vars, modules_, moduleSources_, modAt>>

\* for (const auto& sourceId : mapIt->second) unregisterSource(sourceId)
ShutdownUnregister ==
    /\ pmpc = "unregister"
    /\ IF srcAt <= Len(moduleSources_[modules_[modAt].id])
       THEN /\ RegistryUnregisters(moduleSources_[modules_[modAt].id][srcAt])
            /\ Logged("unregisterSource", modAt, moduleSources_[modules_[modAt].id][srcAt])
            /\ srcAt' = srcAt + 1
            /\ UNCHANGED <<pmpc, modAt>>
       ELSE /\ pmpc' = "shutdown"
            /\ modAt' = modAt - 1
            /\ UNCHANGED <<vars, srcAt, pmlog>>
    /\ UNCHANGED <<modules_, moduleSources_, initialized_>>

PluginNext ==
    \/ InitializeModulesBegin
    \/ InitializeDeclare
    \/ InitializeRegisterSource
    \/ InitializeModule
    \/ ShutdownModulesBegin
    \/ ShutdownModule
    \/ ShutdownUnregister

\* the plugin manager after registerModule was called for each module of
\* any list: moduleSources_.try_emplace(moduleId); modules_.push_back(...)
InitPlugin ==
    /\ Quiet /\ ReadIdle /\ SendIdle /\ LocksIdle
    /\ modules_ \in ModuleLists
    /\ moduleSources_ = [id \in {modules_[k].id : k \in 1..Len(modules_)} |-> <<>>]
    /\ initialized_ = FALSE
    /\ pmpc = "idle" /\ modAt = 0 /\ srcAt = 0 /\ pmlog = <<>>

PluginSpec ==
    InitPlugin
        /\ [][PluginNext /\ UNCHANGED <<cvars, pvars, mvars, rvars, svars, lvars>>]_allvars

\* ------------------------------------------------------ the locks: steps
\* What the functions of the registry and of the relay client do with the
\* three locks.  The worker thread replays the subscriptions and handles
\* dataFrame notifications (registry update); the two other threads call
\* the control functions and the registry; an observer callback, on any
\* thread, may call them too.
Locks == {"registry", "subscriptions", "send"}
LockThreads == {"worker", "u1", "u2"}
MaxLockCalls == 5

Acquire(lock) == [op |-> "acquire", arg |-> lock]
Release(lock) == [op |-> "release", arg |-> lock]
Calls(fn) == [op |-> "call", arg |-> fn]
Callbacks == [op |-> "callbacks", arg |-> ""]

\* subscribeSource and unsubscribeSource: the block under
\* subscriptionsMutex_, then sendSubscriptionMessage or sendUnsubscribeMessage
SubscribeSourceSteps ==
    <<Acquire("subscriptions"), Release("subscriptions"), Calls("sendJson")>>

\* requestMetricReset: sendJson(request)
RequestMetricResetSteps == <<Calls("sendJson")>>

\* sendJson: std::lock_guard lock(sendMutex_) around the ::send loop
SendJsonSteps == <<Acquire("send"), Release("send")>>

\* resendSubscriptions: subscriptionsMutex_ is held over the sends
ResendSubscriptionsSteps ==
    <<Acquire("subscriptions"), Calls("sendJson"), Release("subscriptions")>>

\* an update that invokes the callbacks inside the scope of its lock
UpdateStepsCallbacksLocked == <<Acquire("registry"), Callbacks, Release("registry")>>

\* DataRegistry::update: the block under mutex_, then the callbacks
UpdateSteps == <<Acquire("registry"), Release("registry"), Callbacks>>

\* the other member functions of DataRegistry: one block under mutex_
RegistryCallSteps == <<Acquire("registry"), Release("registry")>>

Steps(fn) ==
    CASE fn = "subscribeSource" -> SubscribeSourceSteps
      [] fn = "requestMetricReset" -> RequestMetricResetSteps
      [] fn = "sendJson" -> SendJsonSteps
      [] fn = "resendSubscriptions" -> ResendSubscriptionsSteps
      [] fn = "update" -> UpdateSteps
      [] fn = "registryCall" -> RegistryCallSteps

\* what a thread calls from outside: the worker from run() and readLoop,
\* the others from the application
EntryPoints(t) ==
    IF t = "worker" THEN {"resendSubscriptions", "update"}
    ELSE {"subscribeSource", "requestMetricReset", "update", "registryCall"}
\* what an observer callback calls
CallbackCalls == {"subscribeSource", "requestMetricReset", "registryCall"}

LTop(t) == lstack[t][Len(lstack[t])]
\* the instruction thread t is at, NoStep at the end of its function
NoStep == [op |-> "return", arg |-> ""]
StepAt(t) ==
    IF lstack[t] = <<>> THEN [op |-> "none", arg |-> ""]
    ELSE IF LTop(t).pc > Len(Steps(LTop(t).fn)) THEN NoStep
    ELSE Steps(LTop(t).fn)[LTop(t).pc]
HeldBy(t) == {l \in Locks : holder[l] = t}
Advanced(t) == [lstack EXCEPT ![t][Len(lstack[t])].pc = @ + 1]

\* thread t calls fn, from outside or from inside an observer callback
LockCall(t, fn) ==
    /\ lcalls < MaxLockCalls
    /\ \/ lstack[t] = <<>> /\ fn \in EntryPoints(t)
       \/ StepAt(t).op = "callbacks" /\ fn \in CallbackCalls
    /\ lstack' = [lstack EXCEPT ![t] = Append(@, [fn |-> fn, pc |-> 1])]
    /\ lcalls' = lcalls + 1
    /\ UNCHANGED <<holder, lorder>>

\* std::lock_guard / std::unique_lock: waits until the lock is free
LockAcquire(t) ==
    /\ StepAt(t).op = "acquire"
    /\ holder[StepAt(t).arg] = NoThread
    /\ holder' = [holder EXCEPT ![StepAt(t).arg] = t]
    /\ lorder' = lorder \cup {<<held, StepAt(t).arg>> : held \in HeldBy(t)}
    /\ lstack' = Advanced(t)
    /\ UNCHANGED lcalls

\* the end of the scope of the lock
LockRelease(t) ==
    /\ StepAt(t).op = "release"
    /\ holder' = [holder EXCEPT ![StepAt(t).arg] = NoThread]
    /\ lstack' = Advanced(t)
    /\ UNCHANGED <<lorder, lcalls>>

\* the call of sendJson from a client function, or none (shouldSend is
\* false)
LockNested(t) ==
    /\ StepAt(t).op = "call"
    /\ \/ lstack' = [Advanced(t) EXCEPT ![t] = Append(@, [fn |-> StepAt(t).arg, pc |-> 1])]
       \/ lstack' = Advanced(t)
    /\ UNCHANGED <<holder, lorder, lcalls>>

\* the callbacks have returned, or the function returns
LockReturn(t) ==
    /\ \/ StepAt(t).op = "callbacks" /\ lstack' = Advanced(t)
       \/ StepAt(t).op = "return"
            /\ lstack' = [lstack EXCEPT ![t] = SubSeq(@, 1, Len(@) - 1)]
    /\ UNCHANGED <<holder, lorder, lcalls>>

LockNext ==
    \E t \in LockThreads :
        \/ \E fn \in EntryPoints(t) \cup CallbackCalls : LockCall(t, fn)
        \/ LockAcquire(t)
        \/ LockRelease(t)
        \/ LockNested(t)
        \/ LockReturn(t)

\* no thread is inside a function and no lock is held
InitLock ==
    /\ Quiet /\ ReadIdle /\ SendIdle /\ PluginIdle
    /\ holder = [l \in Locks |-> NoThread]
    /\ lstack = [t \in LockThreads |-> <<>>]
    /\ lorder = {}
    /\ lcalls = 0

LockSpec == InitLock /\ [][LockNext /\ UNCHANGED <<qvars, rvars, svars, gvars>>]_allvars

\* ============================================================ properties
Max(S) == CHOOSE x \in S : \A y \in S : y <= x
Tokens == DOMAIN received
\* the number of times the callback of tok was invoked for store number k
Count(tok, k) == Cardinality({i \in 1..Len(received[tok]) : received[tok][i].seq = k})
\* the source a token was issued for
Owner(tok) == issued[CHOOSE i \in 1..Len(issued) : issued[i].token = tok].sourceId
\* the update activations that have stored their frame
Delivering ==
    {a \in AllActivations : a.op = "update" /\ a.pc \in {"loop", "in_cb"}}

\* ---- C1
\* the store numbers of the frames passed to update for id since its latest
\* frame was last erased by unregisterSource
StoresSince(id) ==
    {k \in 1..Len(stores) : stores[k].frame.sourceId = id /\ k > erasedAt[id]}

\* C1: latest(sourceId) is exactly the frame of the last update stored for
\* that sourceId since the last unregisterSource (none if there is none):
\* the Nth frame replaces the earlier ones as a whole, and stores for other
\* sourceIds do not change it.
C1_LatestIsLastFrame ==
    \A id \in SourceIds :
        latest(id) = IF StoresSince(id) = {} THEN <<>>
                     ELSE <<stores[Max(StoresSince(id))].frame>>

\* two different frames were stored for one source while the other source
\* holds a frame too
C1_Witness ==
    \E id \in SourceIds, other \in SourceIds :
        /\ other # id
        /\ Cardinality(StoresSince(id)) >= 2
        /\ \E j \in StoresSince(id) : stores[j].frame # stores[Max(StoresSince(id))].frame
        /\ latest(other) # <<>>

C3_StoreOrderAlways ==
    \A tok \in Tokens : \A i, j \in 1..Len(received[tok]) :
        i < j => received[tok][i].seq < received[tok][j].seq

\* C3 amended: an observer receives the stored frames, and it receives two
\* of them out of store order only when the update that stored the earlier
\* one had not returned when the later one was stored (the two calls
\* overlap: on two threads, or one nested in a callback of the other).
C3_StoreOrderUnlessOverlap ==
    \A tok \in Tokens : \A i, j \in 1..Len(received[tok]) :
        /\ received[tok][i].frame = stores[received[tok][i].seq].frame
        /\ (i < j /\ received[tok][i].seq >= received[tok][j].seq) =>
              received[tok][j].seq \in stores[received[tok][i].seq].open

\* an observer has received two frames of updates that did not overlap
C3_Witness ==
    \E tok \in Tokens :
        /\ Len(received[tok]) = 2
        /\ received[tok][1].seq < received[tok][2].seq
        /\ received[tok][1].seq \notin stores[received[tok][2].seq].open
        /\ received[tok][1].frame # received[tok][2].frame

\* ---- C4
\* the tags of the non-empty callbacks among the first n of a sequence
CallableTags(cbs, n) == {cbs[k].tag : k \in {x \in 1..n : cbs[x].callable}}
\* the number of callbacks of activation a the loop has reached
Reached(a) == IF a.pc = "in_cb" THEN a.i ELSE a.i - 1

\* C4: while the callbacks of an update run, the observers it invokes are
\* those registered when it stored its frame, whatever observers_ holds by
\* now: the ones invoked so far are the first of that list, the rest are
\* still to come, and nothing outside the list is ever invoked for it.
C4_DeliverySetFixedAtStore ==
    \A a \in Delivering :
        /\ CallableTags(a.callbacks, Len(a.callbacks)) = stores[a.seq].expected
        /\ {tok \in Tokens : Count(tok, a.seq) > 0} = CallableTags(a.callbacks, Reached(a))

\* an observer removed during the callbacks of an update was invoked for it
\* after the removal
C4_RemovedStillInvoked ==
    \E a \in Delivering : \E tok \in stores[a.seq].expected \cap DOMAIN removed :
        /\ tok \notin RegisteredTags(a.sourceId)
        /\ removed[tok].at >= a.seq
        /\ Len(received[tok]) > removed[tok].got
        /\ Count(tok, a.seq) = 1

\* an observer added during the callbacks of an update was not invoked by
\* the time the last of them has returned
C4_AddedNotInvoked ==
    \E a \in Delivering : \E tok \in RegisteredTags(a.sourceId) \ stores[a.seq].expected :
        /\ stores[a.seq].expected # {}
        /\ a.pc = "loop" /\ a.i > Len(a.callbacks)
        /\ Count(tok, a.seq) = 0

C4_Witness == C4_RemovedStillInvoked \/ C4_AddedNotInvoked

\* ---- C5
ObserversOf(id) == IF id \in DOMAIN observers_ THEN observers_[id] ELSE <<>>
Unregistering(t) == stack[t] # <<>> /\ Top(t).op = "unregisterSource"
\* thread t is inside a critical section of the registry
InsideCritical(t) ==
    /\ stack[t] # <<>>
    /\ Top(t).pc \in {"read", "body", "store", "erase_metadata", "erase_latest", "erase_observers"}

\* while a thread is between the erases of unregisterSource it owns the
\* lock exclusively and no other thread is inside a reader or a writer
C5_NoPartialView ==
    \A t \in Threads : Unregistering(t) =>
        /\ mutex_.writer = t /\ mutex_.readers = {}
        /\ \A u \in Threads \ {t} : ~InsideCritical(u)

\* one step of unregisterSource(id) by thread t, at statement pc
C5_UnregisterStep(id, pc) ==
    /\ \A x \in SourceIds \ {id} :
          /\ metadata(x)' = metadata(x)
          /\ latest(x)' = latest(x)
          /\ ObserversOf(x)' = ObserversOf(x)
    /\ nextObserverId_' = nextObserverId_
    /\ pc = "erase_observers" =>
          /\ ~isRegistered(id)'
          /\ metadata(id)' = <<>>
          /\ latest(id)' = <<>>
          /\ \A m \in listSources' : m.id # id
          /\ id \notin DOMAIN observers_'
          /\ mutex_' = NoLock
    /\ (/\ id \notin DOMAIN metadata_
        /\ id \notin DOMAIN latestFrames_
        /\ id \notin DOMAIN observers_) => UNCHANGED registry

\* C5: unregisterSource(id) erases the metadata, the latest frame and the
\* observer list of id under one exclusive hold of the lock, so no reader
\* runs between the erases; when it returns all three are gone (isRegistered
\* false, metadata and latest none, listSources without id); the entries of
\* other ids are untouched; and for an unknown id nothing changes.
C5_UnregisterAtomic ==
    [][/\ C5_NoPartialView'
       /\ \A t \in Threads, id \in SourceIds, pc \in {"erase_metadata", "erase_latest", "erase_observers"} :
             (At(t, "unregisterSource", pc) /\ Top(t).sourceId = id /\ stack'[t] # stack[t])
                 => C5_UnregisterStep(id, pc)]_vars

\* an unregisterSource has returned for a source that had metadata, a frame
\* and an observer
C5_Witness ==
    \E id \in {m.id : m \in wasRegistered} :
        /\ \A t \in Threads : stack[t] = <<>>
        /\ \E k \in 1..Len(stores) : stores[k].frame.sourceId = id /\ k <= erasedAt[id]
        /\ \E tok \in DOMAIN removed :
              removed[tok].by = "unregisterSource" /\ Owner(tok) = id
        /\ ~isRegistered(id) /\ latest(id) = <<>> /\ id \notin DOMAIN observers_

\* ---- C6
UnregisteredTokens == {tok \in DOMAIN removed : removed[tok].by = "unregisterSource"}

\* C6 as claimed: once unregisterSource(id) has returned, the callback of
\* an observer it erased is never invoked again.
C6_NeverInvokedAgain ==
    \A tok \in UnregisteredTokens : Len(received[tok]) = removed[tok].got

\* C6 amended: the callback of an observer erased by unregisterSource(id)
\* is invoked by no update that stores its frame after the unregister,
\* whatever is registered or added for id later; only an update that had
\* stored its frame before (in flight) may still invoke it.
C6_NotInvokedByLaterUpdates ==
    \A tok \in UnregisteredTokens : \A i \in 1..Len(received[tok]) :
        received[tok][i].seq <= removed[tok].at

\* the source of a token that is not an empty callback
Callable(tok) == \E i \in 1..Len(issued) : issued[i].token = tok /\ issued[i].callable
\* an update for the source of tok stored its frame after tok was erased,
\* has returned and did not invoke it
MissedLaterUpdate(tok) ==
    \E k \in 1..Len(stores) :
        /\ k > removed[tok].at
        /\ stores[k].frame.sourceId = Owner(tok)
        /\ stores[k].done
        /\ Count(tok, k) = 0

C6_Witness == \E tok \in UnregisteredTokens : Callable(tok) /\ MissedLaterUpdate(tok)

\* ---- C7
\* C7: the tokens returned by addObserver are 1, 2, 3, ... in the order of
\* the calls, whatever the sourceId and whatever was removed in between, so
\* no token is returned twice.
C7_TokensNeverReused ==
    \A i \in 1..Len(issued) :
        /\ issued[i].token = i
        /\ \A j \in 1..Len(issued) : i # j => issued[i].token # issued[j].token

\* a token was issued after an earlier one had been erased
C7_Witness ==
    /\ Len(issued) >= 2
    /\ \E tok \in DOMAIN removed : removed[tok].issuedThen < Len(issued)

\* ---- C8
RemovedTokens == {tok \in DOMAIN removed : removed[tok].by = "removeObserver"}

\* the body of removeObserver(id, token)
C8_RemoveStep(id, token) ==
    /\ token \notin TokensOf(observers_', id)
    /\ token \notin TokensOf(observers_, id) => UNCHANGED registry

\* C8: removeObserver(id, token) leaves no entry with that token under id,
\* and when there is none to begin with (token never issued, already
\* removed, issued for another source, or no observers for id) it leaves
\* the whole registry as it is; so a second call changes nothing.
C8_RemoveIdempotent ==
    [][\A t \in Threads, id \in SourceIds, token \in TokenArgs :
         (/\ At(t, "removeObserver", "body") /\ stack'[t] # stack[t]
          /\ Top(t).sourceId = id /\ Top(t).token = token) => C8_RemoveStep(id, token)]_vars

\* removeObserver has been called a second time for a token it had removed
C8_Witness ==
    /\ "removed" \in noopRemoves
    /\ \E tok \in RemovedTokens : removed[tok].issuedThen = Len(issued)

\* ---- C9

\* C9: the callback of an observer erased by removeObserver(id, token) is
\* invoked by no update that stores its frame after the removal; it may
\* still be invoked by an update that stored its frame before.
C9_NotInvokedAfterRemove ==
    \A tok \in RemovedTokens : \A i \in 1..Len(received[tok]) :
        received[tok][i].seq <= removed[tok].at

C9_Witness == \E tok \in RemovedTokens : Callable(tok) /\ MissedLaterUpdate(tok)

\* ---- C10
\* the tokens whose callback was invoked for store number k
InvokedFor(k) == {tok \in Tokens : Count(tok, k) > 0}

\* C10 as claimed: an update for a sourceId without metadata invokes no
\* observer callback.
C10_NoCallbackWithoutMetadata ==
    \A k \in 1..Len(stores) : ~stores[k].registered => InvokedFor(k) = {}

\* the frames stored for sources without metadata were delivered to the
\* observers added for that sourceId, and to nobody else
C10_DeliveredAsUsual ==
    \A k \in 1..Len(stores) : ~stores[k].registered =>
        /\ InvokedFor(k) \subseteq stores[k].expected
        /\ stores[k].done => InvokedFor(k) = stores[k].expected

\* C10 amended: update(frame) for a sourceId without metadata stores the
\* frame so that latest(sourceId) returns it, does not register the source,
\* and invokes the observers that were added for that sourceId exactly as
\* for a registered source (none only when none was added).
C10_UpdateWithoutMetadata ==
    [][/\ C10_DeliveredAsUsual'
       /\ \A t \in Threads, id \in SourceIds, points \in PointLists :
             (/\ At(t, "update", "store") /\ stack'[t] # stack[t]
              /\ Top(t).sourceId = id /\ Top(t).points = points
              /\ ~isRegistered(id)) =>
                 /\ latest(id)' = <<DataFrame(id, points)>>
                 /\ metadata_' = metadata_]_vars

\* an update for a source without metadata has returned after invoking an
\* observer
C10_Witness ==
    \E k \in 1..Len(stores) :
        /\ ~stores[k].registered
        /\ stores[k].done
        /\ stores[k].expected # {}
        /\ InvokedFor(k) = stores[k].expected
        /\ latest(stores[k].frame.sourceId) = <<stores[k].frame>>

\* ---- C11
\* the record of token tok in issued
Issue(tok) == issued[CHOOSE i \in 1..Len(issued) : issued[i].token = tok]
\* the tokens of non-empty callbacks added for a source that had neither
\* metadata nor a frame
FreshTokens == {tok \in Tokens : Issue(tok).fresh /\ Issue(tok).callable}
\* the store numbers of the updates for the source of tok after it was added
UpdatesAfterAdd(tok) ==
    {k \in 1..Len(stores) : k > Issue(tok).at /\ stores[k].frame.sourceId = Owner(tok)}
Min(S) == CHOOSE x \in S : \A y \in S : x <= y

\* an observer added for an unknown source is invoked by updates for that
\* source only, stored after it was added; the first of these, once it has
\* returned, has invoked it once with its frame (unless the observer was
\* erased before that store)
C11_FirstUpdateDelivers ==
    \A tok \in FreshTokens :
        /\ \A i \in 1..Len(received[tok]) :
              /\ received[tok][i].seq \in UpdatesAfterAdd(tok)
              /\ received[tok][i].frame = stores[received[tok][i].seq].frame
        /\ UpdatesAfterAdd(tok) = {} => received[tok] = <<>>
        /\ UpdatesAfterAdd(tok) # {} =>
              LET first == Min(UpdatesAfterAdd(tok))
              IN (/\ stores[first].done
                  /\ tok \in DOMAIN removed => removed[tok].at >= first)
                 => Count(tok, first) = 1

LockHolders == {t \in Threads : mutex_.writer = t \/ t \in mutex_.readers}
\* thread t runs the callback loop of an update (between two callbacks or
\* inside one that is not inside a registry call of its own)
InCallbackLoop(t) ==
    stack[t] # <<>> /\ Top(t).op = "update" /\ Top(t).pc \in {"loop", "in_cb"}
\* the calls below the innermost one of a thread are updates inside a callback
NestedInCallbacks(t) ==
    \A k \in 1..(Len(stack[t]) - 1) :
        stack[t][k].op = "update" /\ stack[t][k].pc = "in_cb"

\* a thread in the callback loop of update owns no lock; a lock is owned
\* only by the innermost call of a thread, inside its critical section, and
\* the calls around it are updates that run a callback on that same thread
C12_CallbacksOutsideLock ==
    \A t \in Threads :
        /\ InCallbackLoop(t) => t \notin LockHolders
        /\ t \in LockHolders => InsideCritical(t)
        /\ NestedInCallbacks(t)

\* C12: the callbacks of update run on the calling thread with no registry
\* lock held, so a registry call made from a callback can take the lock,
\* and every call, nested in a callback or not, with other threads using
\* the registry or not, returns: the lock is always released again and
\* every thread leaves the registry.
C12_CallbacksNoDeadlock ==
    /\ []C12_CallbacksOutsideLock
    /\ \A t \in Threads : []<>(stack[t] = <<>>)
    /\ []<>(mutex_ = NoLock)

\* a writer called from inside a callback holds the lock while the other
\* thread is inside a callback of its own update
C12_Witness ==
    \E t \in Threads, u \in Threads :
        /\ t # u
        /\ Len(stack[t]) = 2 /\ stack[t][1].pc = "in_cb"
        /\ mutex_.writer = t
        /\ InCallbackLoop(u)

\* ---- C13
\* thread t is inside one of the four const member functions
Reading(t) == stack[t] # <<>> /\ Top(t).pc = "read"
\* thread t is inside the locked part of registerSource, unregisterSource,
\* update, addObserver or removeObserver
Writing(t) == InsideCritical(t) /\ Top(t).pc # "read"

\* C13: readers (latest, listSources, metadata, isRegistered) hold the lock
\* shared, any number of them together; while registerSource,
\* unregisterSource, the store step of update, addObserver or removeObserver
\* is inside its critical section it owns the lock alone and no other
\* thread, reader or writer, is inside a critical section.
C13_ReaderWriterDiscipline ==
    \A t \in Threads :
        /\ Reading(t) => t \in mutex_.readers /\ mutex_.writer = NoThread
        /\ Writing(t) =>
              /\ mutex_.writer = t /\ mutex_.readers = {}
              /\ \A u \in Threads \ {t} : ~InsideCritical(u)
        /\ t \in LockHolders => InsideCritical(t)

\* two readers are inside the registry together
C13_Witness ==
    \E t \in Threads, u \in Threads :
        t # u /\ Reading(t) /\ Reading(u) /\ {t, u} \subseteq mutex_.readers

\* ---- C14
\* the body of registerSource({id, name})
C14_RegisterStep(id, name) ==
    /\ isRegistered(id)'
    /\ metadata(id)' = <<SourceMetadata(id, name)>>
    /\ {m \in listSources' : m.id = id} = {SourceMetadata(id, name)}
    /\ \A x \in SourceIds \ {id} : metadata(x)' = metadata(x)
    /\ UNCHANGED <<latestFrames_, observers_, nextObserverId_, received, stores>>

\* C14: registerSource(metadata) stores the record under its id, replacing
\* the one held before: afterwards metadata(id) is the record passed last
\* and listSources holds exactly one record of that id (and one record per
\* registered id at any time); the call invokes no observer and leaves the
\* latest frames, the observer lists and the records of other ids as they
\* are.
C14_RegisterUpserts ==
    [][/\ \A t \in Threads, id \in SourceIds, name \in Names :
             (/\ At(t, "registerSource", "body") /\ stack'[t] # stack[t]
              /\ Top(t).sourceId = id /\ Top(t).name = name) => C14_RegisterStep(id, name)
       /\ \A id \in SourceIds :
             Cardinality({m \in listSources' : m.id = id}) = IF isRegistered(id)' THEN 1 ELSE 0]_vars

\* a source that holds a frame and an observer, and was never unregistered,
\* has been registered a second time with another record
C14_Witness ==
    \E id \in SourceIds :
        /\ \A t \in Threads : stack[t] = <<>>
        /\ \E m \in wasRegistered : m.id = id /\ metadata(id) = <<m>>
        /\ \E m \in wasRegistered : m.id = id /\ metadata(id) # <<m>>
        /\ erasedAt[id] = 0 /\ id \notin {Owner(tok) : tok \in UnregisteredTokens}
        /\ latest(id) # <<>> /\ id \in DOMAIN observers_

\* ---- C15
\* the ids registerSource was ever called with
EverRegistered == {m.id : m \in wasRegistered}

\* C15: every sourceId for which the registry holds a latest frame has
\* metadata now or had metadata registered at some earlier time.
C15_FramesOfRegisteredSources ==
    \A id \in DOMAIN latestFrames_ : isRegistered(id) \/ id \in EverRegistered

\* ---- C16
\* the state of the client that start() and stop() work on
clientState == <<running_, socketFd_, subscribedSources_, subscriptionsMutex_, worker_,
                 liveWorkers, aborted, lifecycle, open, events, regCalls>>
\* this step is a call of start()
StartCalled == lifecycleLog' = Append(lifecycleLog, "start")
\* this step is the beginning of a call of stop()
StopCalled == lifecycleLog' = Append(lifecycleLog, "stop")

\* C16: whatever start() and stop() calls are made one after the other,
\* there is never more than one thread running the connection loop (and
\* std::thread is never assigned while joinable): start() on a running
\* client starts no thread and changes nothing, start() on a stopped client
\* starts exactly one.
C16_AtMostOneWorker ==
    [][/\ liveWorkers' <= 1 /\ ~aborted'
       /\ StartCalled =>
             IF running_
             THEN UNCHANGED clientState
             ELSE /\ liveWorkers = 0 /\ liveWorkers' = 1
                  /\ worker_ = "none" /\ worker_' = "top"
                  /\ running_']_<<vars, cvars>>

\* start() was called on a running client
C16_Witness ==
    /\ liveWorkers = 1
    /\ \E i \in 1..(Len(lifecycleLog) - 1) :
          lifecycleLog[i] = "start" /\ lifecycleLog[i + 1] = "start"

\* ---- C17
\* C17: a stop() that has begun returns, with the worker thread ended and
\* joined, wherever the worker stood when it was called (closing the
\* descriptor ends a pending read); stop() on a client that is not running
\* (stopped before, or never started) returns at once and changes nothing.
\* A call returns only in a process that still runs: the process ended by
\* SIGPIPE is the subject of C25.
C17_StopTerminates ==
    /\ []<>(lifecycle = "idle" \/ sigpipe)
    /\ [](Stopped => (worker_ = "none" /\ liveWorkers = 0))
    /\ [][(StopCalled /\ ~running_) =>
             (UNCHANGED clientState /\ lifecycle' = "idle")]_<<vars, cvars>>

\* a stop() called while the worker was blocked in the read has returned,
\* and stop() was called once more after it
C17_Witness ==
    /\ Stopped
    /\ stoppedAt = "recv"
    /\ worker_ = "none"
    /\ \E i \in 1..(Len(lifecycleLog) - 1) :
          lifecycleLog[i] = "stop" /\ lifecycleLog[i + 1] = "stop"

\* ---- C18
\* C18: while the client is stopped (stop() has returned and start() was
\* not called since) no worker thread exists, so no registerSource or
\* update call is made on its behalf, and the socket is closed: socketFd_
\* is -1 and no descriptor is left open.
C18_QuietAfterStop ==
    /\ Stopped => /\ worker_ = "none" /\ liveWorkers = 0
                  /\ socketFd_ = -1 /\ open = {}
    /\ \A k \in 1..Len(regCalls) : ~regCalls[k].stopped

\* stop() has returned; it was called between ::connect and the store of
\* the new descriptor, or while a message was being handled
C18_Witness ==
    /\ Stopped
    /\ stoppedAt \in {"store_fd", "handle"}
    /\ conns > 0

\* ---- C19
\* the positions in events of the messages written on connection c
SentOn(c) == {k \in 1..Len(events) : events[k].kind = "sent" /\ events[k].conn = c}

\* C19: on every connection the first message written is the
\* workbench.registerClient request, whoever else sends at the same time.
C19_RegisterClientFirst ==
    \A c \in 1..conns :
        SentOn(c) # {} => events[Min(SentOn(c))].method = "workbench.registerClient"

\* ---- C20
\* the positions in events of the replays begun
Replays == {r \in 1..Len(events) : events[r].kind = "replay"}
\* the positions of the subscribe requests written by the replay on connection c
ReplaySent(c) == {k \in SentOn(c) : events[k].from = "replay"}
\* the positions of the inbound messages of connection c that were handled
HandledOn(c) == {k \in 1..Len(events) : events[k].kind = "handled" /\ events[k].conn = c}
\* the replay of connection c is over
ReplayOver(c) == ~(worker_ = "replay" /\ wfd = c)
\* connection c is open at both ends
Up(c) == c \in open /\ c \in peerOpen

\* C20 as claimed: on every connection, once the replay is over, a
\* subscribe request was written for every sourceId tracked at replay time.
C20_ReplayEverySubscription ==
    \A r \in Replays :
        ReplayOver(events[r].conn) =>
            {events[k].sourceId : k \in ReplaySent(events[r].conn)} = events[r].tracked

\* C20 amended: on every connection (the first one and those after a
\* close) the replay writes subscribe requests only for sourceIds that are
\* tracked when it begins, each at most once, after the registerClient of
\* the worker and before any inbound message of that connection is
\* handled; it writes one for every such sourceId when the connection is
\* still open at both ends at the end of the replay, and always when an
\* inbound message of that connection is handled.  A connection closed
\* during the replay (by stop() or by the relay) gets the requests written
\* up to then.
C20_ReplayWhileUp ==
    \A r \in Replays :
        LET c == events[r].conn
            ids == {events[k].sourceId : k \in ReplaySent(c)}
        IN /\ ids \subseteq events[r].tracked
           /\ \A k \in ReplaySent(c) :
                 /\ k > r
                 /\ events[k].method = "workbench.subscribe"
                 /\ \A h \in HandledOn(c) : k < h
                 /\ \A j \in ReplaySent(c) : events[j].sourceId = events[k].sourceId => j = k
           /\ \A h \in HandledOn(c) : r < h
           /\ ((ReplayOver(c) /\ Up(c)) \/ HandledOn(c) # {}) => ids = events[r].tracked
           /\ \A q \in Replays : events[q].conn = c => q = r

\* the replay of a second connection has written the subscribe request of
\* a tracked sourceId
C20_Witness ==
    \E r \in Replays :
        /\ events[r].conn = 2
        /\ events[r].tracked # {}
        /\ ReplayOver(2)
        /\ {events[k].sourceId : k \in ReplaySent(2)} = events[r].tracked

\* ---- C21
\* the positions in events of the requests of the given method and
\* sourceId that were written by the threads calling subscribeSource and
\* unsubscribeSource (the replay's are not among them)
CallerSent(method, sourceId) ==
    {k \in 1..Len(events) : /\ events[k].kind = "sent"
                            /\ events[k].from \in Callers
                            /\ events[k].method = method
                            /\ events[k].sourceId = sourceId}
\* some call op(sourceId) was made that found sourceId tracked (found) or not
Called(op, sourceId, found) ==
    [op |-> op, args |-> <<sourceId>>, tracked |-> found] \in callsMade
\* the client holds a connection that is open at both ends
Connected == socketFd_ >= 0 /\ Up(socketFd_)
\* thread c goes on to send this request
WillSend(c, method, sourceId) ==
    [pc |-> "send", method |-> method, sourceId |-> sourceId]
\* the line written for a request of thread c
Written(c, method, sourceId) ==
    [kind |-> "sent", conn |-> socketFd_, method |-> method, sourceId |-> sourceId,
     from |-> c, tracked |-> {}]
\* thread c returns from a call that had changed the tracked list
Returns(c) == caller[c].pc = "send" /\ caller'[c].pc = "idle"

\* C21: subscribeSource(x) goes on to send a subscribe request exactly
\* when x was not tracked, unsubscribeSource(x) an unsubscribe request
\* exactly when x was tracked, and a call that found nothing to change
\* writes nothing; the request is written once, when the client is
\* connected.  So as long as x was never removed the calling threads have
\* written at most one subscribe request for x however often
\* subscribeSource(x) was called, and as long as x was never tracked they
\* have written no request for it at all.
C21_SendOnlyOnChange ==
    /\ [][\A c \in Callers, x \in SourceIds :
            /\ SubscribeSource(c, x) =>
                  /\ events' = events
                  /\ IF x \in Range(subscribedSources_)
                     THEN UNCHANGED <<caller, subscribedSources_>>
                     ELSE caller' = [caller EXCEPT ![c] = WillSend(c, "workbench.subscribe", x)]
            /\ UnsubscribeSource(c, x) =>
                  /\ events' = events
                  /\ IF x \in Range(subscribedSources_)
                     THEN caller' = [caller EXCEPT ![c] = WillSend(c, "workbench.unsubscribe", x)]
                     ELSE UNCHANGED <<caller, subscribedSources_>>
            /\ Returns(c) =>
                  events' = IF Connected
                            THEN Append(events, Written(c, caller[c].method, caller[c].sourceId))
                            ELSE events
            /\ (/\ Len(events') > Len(events)
                /\ events'[Len(events')].kind = "sent"
                /\ events'[Len(events')].from = c
                /\ events'[Len(events')].method # "workbench.resetMetric") =>
                  /\ Returns(c)
                  /\ events' = Append(events, Written(c, caller[c].method, caller[c].sourceId))
         ]_<<vars, cvars>>
    /\ [](\A x \in SourceIds :
            /\ ~Called("unsubscribeSource", x, TRUE) =>
                  Cardinality(CallerSent("workbench.subscribe", x)) <= 1
            /\ ~Called("subscribeSource", x, FALSE) =>
                  CallerSent("workbench.subscribe", x) = {}
            /\ ~Called("unsubscribeSource", x, TRUE) =>
                  CallerSent("workbench.unsubscribe", x) = {})

\* subscribeSource("a") was called twice on a connected client, "a" was
\* never removed, and one subscribe request was written for the two calls
C21_Witness ==
    /\ Connected
    /\ Called("subscribeSource", "a", FALSE)
    /\ Called("subscribeSource", "a", TRUE)
    /\ ~Called("unsubscribeSource", "a", TRUE)
    /\ Cardinality(CallerSent("workbench.subscribe", "a")) = 1
    /\ \A k \in CallerSent("workbench.subscribe", "a") : events[k].conn = socketFd_

\* ---- C22
\* this step is the beginning of a replay
ReplayBegins ==
    /\ Len(events') = Len(events) + 1
    /\ events'[Len(events')].kind = "replay"

\* C22: whatever the worker is doing (not started, connecting, connected,
\* in backoff), subscribeSource(x) leaves x tracked and unsubscribeSource(x)
\* leaves it untracked; a call that finds no connection when it comes to
\* send writes nothing; and the replay of a connection starts from the
\* tracked set as the calls have left it, writes requests for ids of that
\* set only, and has written one for each of them when it ends with the
\* connection open.
C22_TrackedWhateverTheConnection ==
    /\ [][/\ \A c \in Callers, x \in SourceIds :
               /\ SubscribeSource(c, x) =>
                     Range(subscribedSources_') = Range(subscribedSources_) \cup {x}
               /\ UnsubscribeSource(c, x) =>
                     Range(subscribedSources_') = Range(subscribedSources_) \ {x}
               /\ (Returns(c) /\ ~Connected) => events' = events
          /\ ReplayBegins =>
                events'[Len(events')].tracked =
                    {x \in SourceIds : lastEffect[x] = "subscribeSource"}
         ]_<<vars, cvars>>
    /\ [](\A r \in Replays :
            LET ids == {events[k].sourceId : k \in ReplaySent(events[r].conn)}
            IN /\ ids \subseteq events[r].tracked
               /\ (ReplayOver(events[r].conn) /\ Up(events[r].conn)) => ids = events[r].tracked)

\* subscribeSource("a") was called and wrote nothing, for want of a
\* connection; the replay of a later connection has written the request
C22_Witness ==
    /\ Called("subscribeSource", "a", FALSE)
    /\ CallerSent("workbench.subscribe", "a") = {}
    /\ \A c \in Callers : caller[c].pc = "idle"
    /\ \E r \in Replays :
          /\ ReplayOver(events[r].conn) /\ Up(events[r].conn)
          /\ "a" \in events[r].tracked
          /\ "a" \in {events[k].sourceId : k \in ReplaySent(events[r].conn)}

\* ---- C23
NoDuplicates(list) == \A i, j \in 1..Len(list) : list[i] = list[j] => i = j
\* a call for sourceId has changed the list and not returned yet
InCall(sourceId) ==
    \E c \in Callers : caller[c].pc = "send" /\ caller[c].sourceId = sourceId

\* C23 as claimed: the tracked list holds no sourceId twice, and a
\* sourceId no call is working on is in it exactly when the last call for
\* it that returned was subscribeSource.
C23_LastCompletedCall ==
    /\ NoDuplicates(subscribedSources_)
    /\ \A x \in SourceIds :
          ~InCall(x) => (x \in Range(subscribedSources_) <=> lastDone[x] = "subscribeSource")

\* C23 amended: in every state the tracked list holds no sourceId twice
\* and holds exactly the sourceIds for which the last call that went
\* through its block under subscriptionsMutex_ was subscribeSource; for a
\* sourceId whose calls never overlapped this is the last call that
\* returned.
C23_LastEffectiveCall ==
    /\ NoDuplicates(subscribedSources_)
    /\ Range(subscribedSources_) = {x \in SourceIds : lastEffect[x] = "subscribeSource"}
    /\ \A x \in SourceIds \ overtaken : ~InCall(x) => lastDone[x] = lastEffect[x]

\* two calls for "a" overlapped and have both returned; the one that
\* returned last is not the one that changed the list last
C23_Witness ==
    /\ "a" \in overtaken
    /\ ~InCall("a")
    /\ lastDone["a"] # lastEffect["a"]

\* ---- C24
\* C24: while the worker waits out the reconnect delay no transport is
\* open (socketFd_ is -1 and no descriptor is left open), whatever ended
\* the attempt before; and a connection attempt is preceded by the start
\* of the thread or by a wait, never directly by another attempt.
C24_ClosedBeforeBackoff ==
    /\ [](worker_ = "sleep" => (socketFd_ = -1 /\ open = {}))
    /\ [][(worker_' = "connect" /\ worker_ # "connect") =>
             worker_ \in {"top", "sleep"}]_<<vars, cvars>>

\* ---- C25
\* the positions of run() between a successful ::connect and the read
SetUp == {"store_fd", "send_register", "replay_lock", "replay", "read_enter", "read_check"}

\* C25: the thread function returns only when running_ is false (stop()
\* was called), and nothing else ends the worker: std::terminate is not
\* reached and no signal ends the process; once connected, the worker gets
\* to the read unless stop() intervenes; and a running worker is again and
\* again at a connection attempt or at the read of a connection, whatever
\* failed before.
C25_LoopEndsOnlyOnStop ==
    /\ [][/\ (worker_' = "done" /\ worker_ # "done") => ~running_
          /\ ~aborted'
          /\ ~sigpipe'
          /\ (worker_ \in SetUp /\ worker_' \notin SetUp \cup {"recv"}) => ~running_
         ]_<<vars, cvars>>
    /\ []<>(~running_ \/ worker_ = "connect" \/ worker_ = "recv")

\* ---- C26
\* C26: a requestMetricReset call changes neither the tracked list nor
\* the registry nor anything else of the client; it writes one
\* workbench.resetMetric request when its arguments are not empty and the
\* client is connected, and nothing otherwise; and a workbench.resetMetric
\* request is written only in the step of such a call, so a call made
\* without a connection is never sent later.
C26_ResetIsFireAndForget ==
    [][/\ \A c \in Callers, a \in ResetArgs :
            RequestMetricReset(c, a[1], a[2], a[3]) =>
               /\ UNCHANGED <<subscribedSources_, regCalls, caller, socketFd_, open, running_>>
               /\ UNCHANGED registry
               /\ events' = IF Connected /\ a[1] # "" /\ a[2] # "" /\ a[3] # ""
                            THEN Append(events, Written(c, "workbench.resetMetric", a[1]))
                            ELSE events
       /\ (/\ Len(events') > Len(events)
           /\ events'[Len(events')].method = "workbench.resetMetric") =>
             /\ Connected
             /\ \E c \in Callers, a \in ResetArgs : RequestMetricReset(c, a[1], a[2], a[3])
      ]_<<vars, cvars>>

\* requestMetricReset("a", "ch1", "max") was called without a connection;
\* the client has connected since and no reset request was written
C26_Witness ==
    /\ \E rec \in callsMade :
          rec.op = "requestMetricReset" /\ rec.args = <<"a", "ch1", "max">>
    /\ \A k \in 1..Len(events) : events[k].method # "workbench.resetMetric"
    /\ Connected
    /\ worker_ = "recv"

\* ---- C27
\* C27: subscribeSource(""), unsubscribeSource("") and a
\* requestMetricReset with an empty sourceId, channelId or metric write
\* nothing, change nothing of the client (the tracked list included) and
\* return (there is nothing left to send and no failure); the empty
\* string is never in the tracked list.
C27_EmptyArgumentIgnored ==
    /\ [][\A c \in Callers :
            (\/ SubscribeSource(c, "")
             \/ UnsubscribeSource(c, "")
             \/ \E a \in ResetArgs :
                   /\ a[1] = "" \/ a[2] = "" \/ a[3] = ""
                   /\ RequestMetricReset(c, a[1], a[2], a[3]))
            => UNCHANGED <<events, subscribedSources_, caller, aborted, running_, socketFd_,
                           subscriptionsMutex_, regCalls, lastEffect, lastDone>>
         ]_<<vars, cvars>>
    /\ []("" \notin Range(subscribedSources_))

\* on a connected client subscribeSource("") and a requestMetricReset
\* with an empty argument were called, and no calling thread wrote anything
C27_Witness ==
    /\ Connected
    /\ \E rec \in callsMade : rec.op = "subscribeSource" /\ rec.args = <<"">>
    /\ \E rec \in callsMade :
          rec.op = "requestMetricReset" /\ \E i \in 1..3 : rec.args[i] = ""
    /\ \A k \in 1..Len(events) : events[k].kind = "sent" => events[k].from \notin Callers

\* ---- C28
\* the lines that handleIncomingMessage drops
DroppedKinds == {"junk", "shape", "other"}
\* the positions in events of the data frames handled
HandledFrames ==
    {k \in 1..Len(events) : events[k].kind = "handled" /\ events[k].method = "frame+source"}

\* C28: handling a line that is not JSON, has another shape or names an
\* unknown method makes no registry call, leaves the socket as it is and
\* goes back to the head of the read loop, which reads on while the client
\* runs; every data frame handled, before or after such a line, has made
\* its registry calls.
C28_DroppedLineKeepsLoop ==
    /\ [][/\ (worker_ = "handle" /\ worker_' # "handle" /\ wmsg.kind \in DroppedKinds) =>
                /\ worker_' = "read_check"
                /\ UNCHANGED <<socketFd_, open, regCalls, running_>>
          /\ (worker_ = "read_check" /\ worker_' # "read_check" /\ running_) =>
                worker_' = "recv"
         ]_<<vars, cvars>>
    /\ [](Len(regCalls) = 2 * Cardinality(HandledFrames))

\* a dropped line was handled and, after it on the same connection, a
\* data frame that was registered and published
C28_Witness ==
    \E k, h \in 1..Len(events) :
        /\ k < h
        /\ events[k].kind = "handled" /\ events[k].method \in DroppedKinds
        /\ events[h].kind = "handled" /\ events[h].method = "frame+source"
        /\ events[k].conn = events[h].conn
        /\ Len(regCalls) = 2

\* ---- C29
\* the notification has a "source" member
HasSource == note.source.present

\* C29: when the notification carries source metadata, the source of the
\* frame is registered at the moment update stores the frame, and still is
\* while update invokes the observers.
C29_RegisteredBeforePublished ==
    (HasSource /\ pseq > 0) =>
        /\ stores[pseq].registered
        /\ ppc = "updating" => isRegistered(stores[pseq].frame.sourceId)

\* ---- C30
\* the payload keys in the order of their priority
KeyPriority == <<"numeric", "waveform", "serial", "logic", "gpio">>
\* the alternative each key stands for
VariantOfKey ==
    [numeric |-> DataPayload.NumericSample, waveform |-> DataPayload.WaveformSample,
     serial |-> DataPayload.SerialSample, logic |-> DataPayload.LogicSample,
     gpio |-> DataPayload.GpioState]
\* the alternative expected for a point: that of its first key in priority
\* order, the empty one when it has none of the keys
ExpectedPayload(pointJson) ==
    IF pointJson.has = {} THEN DataPayload.monostate
    ELSE VariantOfKey[KeyPriority[CHOOSE i \in 1..Len(KeyPriority) :
                                     /\ KeyPriority[i] \in pointJson.has
                                     /\ \A j \in 1..(i - 1) : KeyPriority[j] \notin pointJson.has]]
\* the points expected for the points of the wire, in wire order; a point
\* without channelId has the empty one
ExpectedPoints(pointsJson) ==
    [k \in 1..Len(pointsJson) |->
        DataPoint(IF pointsJson[k].channelId = NoMember THEN "" ELSE pointsJson[k].channelId,
                  ExpectedPayload(pointsJson[k]))]
\* processing of the notification is over
Processed == ppc \in {"done", "dropped"}
\* every member of the notification has the type the code reads it as
WellTyped == note.source.typed /\ \A k \in 1..Len(note.frame.points) : note.frame.points[k].typed

\* C30 as claimed: after processing a notification of well-typed members
\* whose source has id s and whose frame has n points, listSources()
\* contains s and latest(s) is a frame of the n expected points.
C30_SourceAndFramePublished ==
    (Processed /\ WellTyped /\ HasSource /\ note.source.id # NoMember /\ note.frame.present) =>
        /\ \E m \in listSources : m.id = note.source.id
        /\ latest(note.source.id) # <<>>
        /\ latest(note.source.id)[1].points = ExpectedPoints(note.frame.points)

\* C30, amended: for a notification with a frame and well-typed members,
\* whose source (if any) has id s and whose frame has sourceId f (s when
\* the frame has none): when s is not empty listSources() contains the
\* record of s, with the name of the wire or s for a name; when f is not
\* empty latest(f) is the frame f of the n expected points; nothing else is
\* stored.  When a member of the frame is ill-typed no frame is stored.
C30_FramePublishedUnderItsOwnId ==
    (Processed /\ note.frame.present /\ note.source.typed) =>
        LET s == IF HasSource /\ note.source.id # NoMember THEN note.source.id ELSE ""
            f == IF note.frame.sourceId # NoMember THEN note.frame.sourceId ELSE s
            name == IF note.source.name # NoMember THEN note.source.name ELSE s
        IN /\ (HasSource /\ s # "") => SourceMetadata(s, name) \in listSources
           /\ (WellTyped /\ f # "") =>
                 /\ pseq > 0
                 /\ latest(f) = <<DataFrame(f, ExpectedPoints(note.frame.points))>>
                 /\ stores[pseq].frame = DataFrame(f, ExpectedPoints(note.frame.points))
           /\ (~WellTyped \/ f = "") => pseq = 0

\* a notification with source "a" and a frame of a point with the keys
\* numeric and waveform followed by a point with none was processed on a
\* registry that has an observer for "a", which received the frame:
\* latest("a") holds a NumericSample and an empty payload, in that order
C30_Witness ==
    /\ ppc = "done"
    /\ HasSource /\ note.source.id = "a"
    /\ Len(note.frame.points) = 2
    /\ note.frame.points[1].has = {"numeric", "waveform"}
    /\ note.frame.points[2].has = {}
    /\ latest("a") = <<DataFrame("a", <<DataPoint("ch1", DataPayload.NumericSample),
                                        DataPoint("ch1", DataPayload.monostate)>>)>>
    /\ pseq > 0 /\ stores[pseq].expected # {}
    /\ \E k \in 1..Len(received[1]) : received[1][k].seq = pseq

\* ---- C36
\* no update call for id is running on any thread
NoUpdateRunning(id) ==
    \A a \in AllActivations : ~(a.op = "update" /\ a.sourceId = id)
\* the observers of id that were registered when the frame that is latest
\* now was stored and have been ever since
ContinuouslyRegistered(id) ==
    IF StoresSince(id) = {} THEN {}
    ELSE stores[Max(StoresSince(id))].expected \cap RegisteredTags(id)
\* the last frame the callback of tok was invoked with
LastReceived(tok) ==
    IF received[tok] = <<>> THEN <<>> ELSE <<received[tok][Len(received[tok])].frame>>
\* the updates for id that had stored their frame and not returned when
\* store number k was made
OverlappedBy(id, k) == {j \in stores[k].open : stores[j].frame.sourceId = id}

\* C36 as claimed: when every update call for a sourceId has returned, the
\* last frame each continuously registered observer of it received is
\* latest(sourceId).
C36_ObserversHoldLatest ==
    \A id \in SourceIds :
        NoUpdateRunning(id) =>
            \A tok \in ContinuouslyRegistered(id) : LastReceived(tok) = latest(id)

\* C36 amended: the same, when the update that stored the latest frame did
\* not overlap an earlier update for the sourceId (none had stored its
\* frame and not yet returned: neither on another thread nor as the caller
\* of the callback that made this update).
C36_ObserversHoldLatestUnlessOverlap ==
    \A id \in SourceIds :
        (NoUpdateRunning(id) /\ StoresSince(id) # {}) =>
            (OverlappedBy(id, Max(StoresSince(id))) = {} =>
                \A tok \in ContinuouslyRegistered(id) : LastReceived(tok) = latest(id))

\* two updates for "a" with different frames, one after the other, have
\* returned, and the observer of "a", registered all the while, has
\* received both and holds the second, which is latest("a")
C36_Witness ==
    /\ NoUpdateRunning("a")
    /\ \E tok \in ContinuouslyRegistered("a") :
          /\ Len(received[tok]) >= 2
          /\ received[tok][Len(received[tok])].frame # received[tok][Len(received[tok]) - 1].frame
          /\ received[tok][Len(received[tok]) - 1].seq \in StoresSince("a")
          /\ LastReceived(tok) = latest("a")
          /\ OverlappedBy("a", Max(StoresSince("a"))) = {}

\* ---- C35
RECURSIVE RelaySet(_, _)
\* the subscription set of the relay for connection c after the first n
\* events: it applies the subscribe and unsubscribe requests written to c
\* in the order in which they were written
RelaySet(c, n) ==
    IF n = 0 THEN {}
    ELSE LET e == events[n]
             before == RelaySet(c, n - 1)
         IN IF e.kind = "sent" /\ e.conn = c /\ e.method = "workbench.subscribe"
            THEN before \cup {e.sourceId}
            ELSE IF e.kind = "sent" /\ e.conn = c /\ e.method = "workbench.unsubscribe"
            THEN before \ {e.sourceId}
            ELSE before
\* the worker has replayed the subscriptions on the connection socketFd_
\* names, which is open at both ends, and reads from it
Serving ==
    /\ Connected
    /\ wfd = socketFd_
    /\ worker_ \in {"read_enter", "read_check", "recv", "handle"}

\* C35: on a connection that is up and past its replay, when no
\* subscribeSource or unsubscribeSource call is under way, the set the relay
\* has built from the requests written to the connection is the tracked set.
C35_RelaySetIsTrackedSet ==
    (Serving /\ \A c \in Callers : caller[c].pc = "idle") =>
        RelaySet(socketFd_, Len(events)) = Range(subscribedSources_)
\* ---- C39
\* the number of the first connection made after a restart (a start() that
\* followed a stop()), 0 when there is none
FirstAfterRestart == IF restart.first \in 1..conns THEN restart.first ELSE 0
\* the positions in events of the replay begun on connection c
ReplaysOn(c) == {r \in Replays : events[r].conn = c}
\* the sourceIds of the subscribe requests written by the replay on connection c
ReplayedIds(c) == {events[k].sourceId : k \in ReplaySent(c)}
\* the worker has written registerClient on connection c before position r
RegisteredBefore(c, r) ==
    \E k \in SentOn(c) :
        k < r /\ events[k].from = "worker" /\ events[k].method = "workbench.registerClient"
\* an unsubscribeSource(id) call was made that found id tracked
Unsubscribed(id) ==
    [op |-> "unsubscribeSource", args |-> <<id>>, tracked |-> TRUE] \in callsMade

\* C39 as claimed: stop() does not change the tracked list, and on the first
\* connection after a restart the worker writes registerClient and then, by
\* the end of the replay, a subscribe request for every sourceId that was
\* tracked when the stop() began.
C39_RestartKeepsIntent ==
    /\ [][(StopCalled \/ lifecycle' # lifecycle) => UNCHANGED subscribedSources_]_<<vars, cvars>>
    /\ [](\A r \in ReplaysOn(FirstAfterRestart) :
              ReplayOver(FirstAfterRestart) =>
                  /\ RegisteredBefore(FirstAfterRestart, r)
                  /\ restart.intent \subseteq ReplayedIds(FirstAfterRestart))

\* C39 amended: stop() does not change the tracked list.  The replay of the
\* first connection after a restart covers the sourceIds tracked when it
\* begins, which are those tracked when the stop() began except the ones an
\* unsubscribeSource call has removed, plus those subscribed since; it
\* writes requests only for them, and when the connection is still held
\* and open at both ends after the replay, registerClient was written
\* before it and a subscribe request was written for every one of them.
C39_RestartReplaysTracked ==
    /\ [][(StopCalled \/ lifecycle' # lifecycle) => UNCHANGED subscribedSources_]_<<vars, cvars>>
    /\ [](\A r \in ReplaysOn(FirstAfterRestart) :
              LET c == FirstAfterRestart
              IN /\ \A id \in restart.intent \ events[r].tracked : Unsubscribed(id)
                 /\ ReplayedIds(c) \subseteq events[r].tracked
                 /\ \A k \in ReplaySent(c) : k > r
                 /\ (ReplayOver(c) /\ socketFd_ = c /\ Up(c)) =>
                        /\ RegisteredBefore(c, r)
                        /\ ReplayedIds(c) = events[r].tracked)

\* the client was stopped with "a" tracked and started again, and the
\* replay of the connection made then has written the subscribe request
\* of "a" after the registerClient request
C39_Witness ==
    /\ FirstAfterRestart # 0
    /\ restart.intent = {"a"}
    /\ ReplayOver(FirstAfterRestart)
    /\ \E r \in ReplaysOn(FirstAfterRestart) :
          /\ RegisteredBefore(FirstAfterRestart, r)
          /\ ReplayedIds(FirstAfterRestart) = {"a"}

\* ---- C31
\* the handling of the metadata notification has ended, by a return or by
\* an exception caught in handleIncomingMessage
MetadataEnded == mpc \in {"done", "dropped"}
\* the positions of the entries for which registerSource has returned
HandedEntries == {handed[i].entry : i \in 1..Len(handed)}
\* the positions of the entries that have an "id" and a member of another
\* type than the code reads it as
IllTypedEntries ==
    {k \in 1..Len(params.entries) :
        ContainsId(params.entries[k]) /\ ~params.entries[k].typed}
\* the positions of the entries that come before the first of those
BeforeIllTyped ==
    IF IllTypedEntries = {} THEN 1..Len(params.entries) ELSE 1..(Min(IllTypedEntries) - 1)
\* the metadata of the last entry with this id that was handed over
LastHanded(id) ==
    handed[Max({i \in 1..Len(handed) : handed[i].metadata.id = id})].metadata

\* C31 as claimed: in each of the three shapes, when the handling of a
\* workbench.metadata notification has ended, registerSource was called
\* for every entry that has an "id" and for no other entry.
C31_EveryEntryWithId ==
    MetadataEnded =>
        \A k \in 1..Len(params.entries) :
            ContainsId(params.entries[k]) <=> k \in HandedEntries

\* C31 amended: in each of the three shapes the entries are taken in
\* order; an entry without "id" registers nothing and the loop goes on
\* with the next one; an entry with "id" is registered with the fields it
\* gives, until an entry with "id" has a member of another type than a
\* string: that entry and all entries after it are not registered.  The
\* registry then holds, for every id registered, the metadata of the last
\* such entry.
C31_EntriesWithIdUntilIllTyped ==
    /\ \A i \in 1..Len(handed) :
          /\ ContainsId(params.entries[handed[i].entry])
          /\ handed[i].entry \in BeforeIllTyped
          /\ handed[i].metadata = MetadataOf([source |-> params.entries[handed[i].entry]])
          /\ \A j \in 1..Len(handed) : i < j => handed[i].entry < handed[j].entry
          /\ handed[i].metadata.id \in DOMAIN metadata_
          /\ mpc # "registering" =>
                metadata_[handed[i].metadata.id] = LastHanded(handed[i].metadata.id)
    /\ MetadataEnded =>
          /\ HandedEntries = {k \in BeforeIllTyped : ContainsId(params.entries[k])}
          /\ mpc = "done" <=> IllTypedEntries = {}

\* a list whose first entry has no "id" and whose second entry has one was
\* handled to its end, and the second entry is registered
C31_Witness ==
    /\ mpc = "done"
    /\ params.shape \in {"array", "sources"}
    /\ Len(params.entries) = 2
    /\ ~ContainsId(params.entries[1])
    /\ HandedEntries = {2}
    /\ "a" \in DOMAIN metadata_ /\ metadata_["a"] = SourceMetadata("a", "n2")

\* ---- C37
\* the notification was dropped: a member of another type than the code
\* reads it as made nlohmann::json throw
Dropped == ppc = "dropped" \/ mpc = "dropped"

\* C37 as claimed: a notification that is dropped for a decode error has
\* made no call of the registry: a dataFrame has not registered its source
\* and has stored no frame, a metadata list has registered no entry.
C37_DroppedLeavesRegistry == Dropped => (calls = 0 /\ pseq = 0 /\ handed = <<>>)

\* ---- C38
\* C38 as claimed: the client registers no source with an empty id and
\* stores no frame with an empty sourceId.
C38_NoEmptyId ==
    /\ "" \notin DOMAIN metadata_
    /\ \A k \in 1..Len(stores) : stores[k].frame.sourceId # ""

\* ---- C33
RECURSIVE LinesFrom(_, _)
\* the non-empty newline-terminated lines of the byte string bytes, in
\* order; line holds the bytes read since the last newline
LinesFrom(bytes, line) ==
    IF bytes = <<>> THEN <<>>
    ELSE IF Head(bytes) = NewLine
         THEN (IF line = <<>> THEN <<>> ELSE <<line>>) \o LinesFrom(Tail(bytes), <<>>)
         ELSE LinesFrom(Tail(bytes), Append(line, Head(bytes)))
Lines(bytes) == LinesFrom(bytes, <<>>)
\* the bytes after the last newline of a byte string
RECURSIVE Unterminated(_)
Unterminated(bytes) ==
    IF bytes = <<>> \/ bytes[Len(bytes)] = NewLine THEN <<>>
    ELSE Append(Unterminated(SubSeq(bytes, 1, Len(bytes) - 1)), bytes[Len(bytes)])
\* the bytes ::recv has returned on connection c
Received(c) == SubSeq(streams[c], 1, rpos[c])
RECURSIVE HandedOf(_, _)
\* the messages among the first n handed over that came from connection c
HandedOf(c, n) ==
    IF n = 0 THEN <<>>
    ELSE IF handedLines[n].conn = c
         THEN Append(HandedOf(c, n - 1), handedLines[n].message)
         ELSE HandedOf(c, n - 1)

BeingSent == {sending[t].msg : t \in {u \in Senders : sending[u].pc = "loop"}}
\* the bytes of one message are never mixed with those of another: a byte
\* that is not the first of its message follows the byte before it of the
\* same message
Contiguous ==
    \A p \in 1..Len(wire) :
        wire[p].at # 1 => (p > 1 /\ wire[p - 1].msg = wire[p].msg /\ wire[p - 1].at = wire[p].at - 1)

\* C32 as claimed: the bytes on the wire are a concatenation of whole
\* messages, each the serialized JSON followed by its newline, but for the
\* message a thread is writing at the moment: messages do not interleave,
\* and a message that is begun is there up to its newline before the next
\* one begins.
C32_WholeMessages ==
    /\ Contiguous
    /\ \A p \in 1..Len(wire) :
          wire[p].at # SerializedSize =>
              IF p < Len(wire) THEN wire[p + 1].msg = wire[p].msg
              ELSE wire[p].msg \in BeingSent

\* ---- C40
\* the sources the modules declare
DeclaredSources == UNION {Range(modules_[k].declares) : k \in 1..Len(modules_)}
\* the positions in pmlog of the calls of initializeModules and shutdownModules
TopCalls == {k \in 1..Len(pmlog) : pmlog[k].op \in {"initializeModules", "shutdownModules"}}
\* the call at position k repeats the call made just before it
Repeated(k) ==
    /\ k \in TopCalls
    /\ \E j \in TopCalls :
          j < k /\ pmlog[j].op = pmlog[k].op /\ \A i \in TopCalls : ~(j < i /\ i < k)
\* the last call made was a shutdownModules on an initialized plugin
\* manager, and it has returned
ShutDown ==
    /\ pmpc = "idle" /\ ~initialized_
    /\ \E k \in 1..Len(pmlog) : pmlog[k].op = "shutdown"
\* no two modules return the same id()
DistinctModuleIds ==
    \A i, j \in 1..Len(modules_) : modules_[i].id = modules_[j].id => i = j
\* while initialize is called, every declared source is registered, and
\* every frame published from it was for a registered source
RegisteredBeforeInitialize ==
    /\ pmpc = "initialize" => DeclaredSources \subseteq DOMAIN metadata_
    /\ \A k \in 1..Len(pmlog) :
          pmlog[k].op = "initialize" =>
              \A m \in 1..Len(modules_) : \A id \in Range(modules_[m].declares) :
                  \E j \in 1..(k - 1) :
                      pmlog[j] = [op |-> "registerSource", module |-> m, sourceId |-> id]
    /\ \A k \in 1..Len(stores) : stores[k].registered
\* a call that repeats the one before it makes no call of a module or of
\* the registry
RepeatedCallDoesNothing ==
    \A k \in 1..Len(pmlog) : Repeated(k) => (k < Len(pmlog) => (k + 1) \in TopCalls)

Blocked(t) == StepAt(t).op = "acquire" /\ holder[StepAt(t).arg] # NoThread
\* a set of threads each of which waits for a lock held by one of them
Deadlocked(S) ==
    S # {} /\ \A t \in S : Blocked(t) /\ holder[StepAt(t).arg] \in S
\* lock b was taken, directly or through a third lock, while a was held
TakenAfter(a, b) ==
    \/ <<a, b>> \in lorder
    \/ \E c \in Locks : <<a, c>> \in lorder /\ <<c, b>> \in lorder

\* C34: the three locks are never taken in a cyclic order, the registry
\* lock is never held while a lock of the client is taken and no lock of
\* the client is held while the registry lock is taken, and no set of
\* threads ever waits for each other's locks, whatever the interleaving of
\* registry calls, control calls (also from inside an observer callback,
\* on the worker thread or another) and the replay.
C34_NoLockCycle ==
    /\ \A a, b \in Locks : TakenAfter(a, b) => ~TakenAfter(b, a)
    /\ \A pair \in lorder : pair[1] # "registry" /\ pair[2] # "registry"
    /\ \A S \in SUBSET LockThreads : ~Deadlocked(S)
    /\ \A t \in LockThreads : HeldBy(t) # {} => lstack[t] # <<>>

\* the worker, inside an observer callback of the update it runs, has
\* called subscribeSource and waits for subscriptionsMutex_, which another
\* thread holds, while a third thread holds the registry lock; the replay
\* has taken sendMutex_ under subscriptionsMutex_ before
C34_Witness ==
    /\ Len(lstack["worker"]) = 2
    /\ lstack["worker"][1].fn = "update"
    /\ lstack["worker"][2].fn = "subscribeSource"
    /\ Blocked("worker")
    /\ \E t \in LockThreads : holder["registry"] = t
    /\ lorder = {<<"subscriptions", "send">>}

====
